---- MODULE Spec2Model ----
(***************************************************************************)
(* A model of lazyman: the navigation state machine (Model.Update and the  *)
(* commands it issues) and the parallel indexing pipeline                  *)
(* (IndexAllManPages), with the pure helpers they use.                     *)
(*                                                                         *)
(* Strings are sequences of one-character strings, so that lower-casing,   *)
(* substring containment, splitting at newlines and the edit distance are  *)
(* computed the way the code computes them.                                *)
(***************************************************************************)
EXTENDS Integers, Sequences, FiniteSets, Bags, TLC

\* ------------------------------------------------------------------ bounds
\* Longest catalog a page source hands back.
MaxPages == 2
\* Most commands outstanding at once (issued, result not yet applied).
MaxPending == 2
\* Longest text typed into either search input.
MaxInput == 1

\* ----------------------------------------------------------------- strings
NL == "\n"

\* strings.ToLower on one character and on a string
LowerChar(c) ==
    CASE c = "A" -> "a"
      [] c = "B" -> "b"
      [] c = "C" -> "c"
      [] c = "E" -> "e"
      [] OTHER -> c

ToLower(s) == [i \in 1..Len(s) |-> LowerChar(s[i])]

\* strings.Contains(hay, needle)
Contains(hay, needle) ==
    \E k \in 0..(Len(hay) - Len(needle)) :
        \A i \in 1..Len(needle) : hay[k + i] = needle[i]

\* strings.Split(s, "\n"): always at least one line
RECURSIVE SplitFrom(_, _, _)
SplitFrom(s, i, cur) ==
    IF i > Len(s) THEN <<cur>>
    ELSE IF s[i] = NL THEN <<cur>> \o SplitFrom(s, i + 1, <<>>)
    ELSE SplitFrom(s, i + 1, Append(cur, s[i]))

SplitLines(s) == SplitFrom(s, 1, <<>>)

\* ------------------------------------------------------------------- pages
\* A ManPage: Name and Section (Description and Path only feed rendering and
\* the indexer's fetch).
Page(n, s) == [Name |-> n, Section |-> s]

PageAb == Page(<<"a", "b">>, "1")
PageAc == Page(<<"A", "c">>, "2")

\* The pages the page source knows, in name order.
PageUniverse == <<PageAb, PageAc>>

RECURSIVE SubSeqs(_, _)
\* every subsequence of seq of length at most n, order kept
SubSeqs(seq, n) ==
    IF Len(seq) = 0 \/ n = 0 THEN {<<>>}
    ELSE LET rest == SubSeqs(Tail(seq), n)
             with == {<<Head(seq)>> \o r : r \in SubSeqs(Tail(seq), n - 1)}
         IN rest \cup with

\* What GetManPages / man -k can hand back: duplicate-free lists in name order.
Catalogs == SubSeqs(PageUniverse, MaxPages)

\* The formatted text `man section name` prints for a page.
ManText(name, section) ==
    CASE name = PageAb.Name -> <<"a", "B", NL, "c", NL, "A">>
      [] name = PageAc.Name -> <<"c", NL, "b", "a">>
      [] OTHER -> <<>>

NoErr == "nil"
ErrManPage == "failed to get man page"

\* fmt.Sprintf("Error loading preview: %v", err)
PreviewErrText(e) == <<"E", "r", "r", "o", "r", " ", e>>

\* --------------------------------------------------------- page source
\* SearchManPages(query): never reports an error (GetManPages always returns
\* nil, and a failing `man -k` is turned into the empty list).
SearchManPages(query) == {[err |-> NoErr, pages |-> c] : c \in Catalogs}

\* GetManContent(name, section): the text, or an error when `man` fails.
GetManContent(name, section) ==
    {[err |-> NoErr, content |-> ManText(name, section)],
     [err |-> ErrManPage, content |-> <<>>]}

\* ------------------------------------------------------------ commands
Cmd(k, n, s, q) == [kind |-> k, name |-> n, section |-> s, query |-> q]

loadManPages == Cmd("loadManPages", <<>>, "", <<".">>)
loadManContent(name, section) == Cmd("loadManContent", name, section, <<>>)
searchManPages(query) == Cmd("searchManPages", <<>>, "", query)
loadPreview(name, section) == Cmd("loadPreview", name, section, <<>>)

Msg(t, p, c, e) == [type |-> t, pages |-> p, content |-> c, err |-> e]

manPagesLoadedMsg(pages) == Msg("manPagesLoadedMsg", pages, <<>>, NoErr)
manContentLoadedMsg(content) == Msg("manContentLoadedMsg", <<>>, content, NoErr)
previewLoadedMsg(content) == Msg("previewLoadedMsg", <<>>, content, NoErr)
errMsg(e) == Msg("errMsg", <<>>, <<>>, e)

\* What the page source answers when the command runs.
Outcomes(c) ==
    CASE c.kind = "loadManPages" -> SearchManPages(<<".">>)
      [] c.kind = "searchManPages" -> SearchManPages(c.query)
      [] c.kind = "loadManContent" -> GetManContent(c.name, c.section)
      [] c.kind = "loadPreview" -> GetManContent(c.name, c.section)

\* The message the command makes of the answer r.
ResultMsg(c, r) ==
    CASE c.kind = "loadManPages" ->
           IF r.err # NoErr THEN errMsg(r.err) ELSE manPagesLoadedMsg(r.pages)
      [] c.kind = "searchManPages" ->
           IF r.err # NoErr THEN errMsg(r.err) ELSE manPagesLoadedMsg(r.pages)
      [] c.kind = "loadManContent" ->
           IF r.err # NoErr THEN errMsg(r.err) ELSE manContentLoadedMsg(r.content)
      [] c.kind = "loadPreview" ->
           IF r.err # NoErr THEN previewLoadedMsg(PreviewErrText(r.err))
                            ELSE previewLoadedMsg(r.content)

\* The messages a command can return when it runs.
RunCmd(c) == {ResultMsg(c, r) : r \in Outcomes(c)}

\* ------------------------------------------------------- pure helpers
\* The nine section filters of InitialModel, all enabled.
InitialFilters ==
    [i \in 1..9 |->
        [Section |-> <<"1", "2", "3", "4", "5", "6", "7", "8", "9">>[i],
         Enabled |-> TRUE]]

\* applyFilters with the test of Enabled left out.
applyFiltersAnyFilter(filters, pages) ==
    SelectSeq(pages,
        LAMBDA page : \E i \in 1..Len(filters) :
            filters[i].Section = page.Section)

\* Model.applyFilters: the pages whose section has an enabled filter.
applyFilters(filters, pages) ==
    SelectSeq(pages,
        LAMBDA page : \E i \in 1..Len(filters) :
            filters[i].Section = page.Section /\ filters[i].Enabled)

\* One row of the edit-distance matrix: cur holds columns 0..j-1 of the row
\* for character c, prev is the row above.
RECURSIVE FillRow(_, _, _, _, _)
FillRow(c, s2, prev, cur, j) ==
    IF j > Len(s2) THEN cur
    ELSE LET cost == IF c # s2[j] THEN 1 ELSE 0
             del == prev[j + 1] + 1
             ins == cur[j] + 1
             sub == prev[j] + cost
             m1 == IF ins < del THEN ins ELSE del
             m2 == IF sub < m1 THEN sub ELSE m1
         IN FillRow(c, s2, prev, Append(cur, m2), j + 1)

RECURSIVE FillMatrix(_, _, _, _)
FillMatrix(s1, s2, prev, i) ==
    IF i > Len(s1) THEN prev
    ELSE FillMatrix(s1, s2, FillRow(s1[i], s2, prev, <<i>>, 1), i + 1)

\* The distance with the letter case kept.
levenshteinDistanceCaseKept(s1, s2) ==
    IF Len(s1) = 0 THEN Len(s2)
    ELSE IF Len(s2) = 0 THEN Len(s1)
    ELSE FillMatrix(s1, s2, [j \in 1..(Len(s2) + 1) |-> j - 1], 1)[Len(s2) + 1]

\* levenshteinDistance: case-insensitive unit-cost edit distance.
levenshteinDistance(s1, s2) ==
    LET s1Lower == ToLower(s1)
        s2Lower == ToLower(s2)
    IN IF Len(s1Lower) = 0 THEN Len(s2Lower)
       ELSE IF Len(s2Lower) = 0 THEN Len(s1Lower)
       ELSE FillMatrix(s1Lower, s2Lower,
                       [j \in 1..(Len(s2Lower) + 1) |-> j - 1], 1)[Len(s2Lower) + 1]

SubstringBonus == 5
MaxDistance == 5
MaxSuggestions == 10

\* The score without the bonus for a substring match.
FuzzyScoreNoBonus(query, page) == levenshteinDistance(query, page.Name)

\* The score findFuzzySuggestions gives a page: distance, less the bonus
\* when the lower-cased query is a substring of the lower-cased name.
FuzzyScore(query, page) ==
    LET distance == levenshteinDistance(query, page.Name)
    IN IF Contains(ToLower(page.Name), ToLower(query))
       THEN distance - SubstringBonus ELSE distance

RECURSIVE ScorePages(_, _)
ScorePages(query, pages) ==
    IF Len(pages) = 0 THEN <<>>
    ELSE LET d == FuzzyScore(query, Head(pages))
             rest == ScorePages(query, Tail(pages))
         IN IF d <= MaxDistance
            THEN <<[page |-> Head(pages), score |-> d]>> \o rest
            ELSE rest

Swap(seq, i, j) == [seq EXCEPT ![i] = seq[j], ![j] = seq[i]]

\* The exchange sort of findFuzzySuggestions (1-based indices).
RECURSIVE SortInner(_, _, _)
SortInner(scored, i, j) ==
    IF j > Len(scored) THEN scored
    ELSE IF scored[j].score < scored[i].score
         THEN SortInner(Swap(scored, i, j), i, j + 1)
         ELSE SortInner(scored, i, j + 1)

RECURSIVE SortOuter(_, _)
SortOuter(scored, i) ==
    IF i > Len(scored) - 1 THEN scored
    ELSE SortOuter(SortInner(scored, i, i + 1), i + 1)

\* Model.findFuzzySuggestions
findFuzzySuggestions(query, allPages) ==
    LET scored == SortOuter(ScorePages(query, allPages), 1)
        max == IF Len(scored) < MaxSuggestions THEN Len(scored) ELSE MaxSuggestions
    IN [i \in 1..max |-> scored[i].page]

\* Model.findMatches: 0-based numbers of the lines of content that contain
\* the query, case-insensitively.
RECURSIVE MatchLines(_, _, _)
MatchLines(lines, searchLower, i) ==
    IF i > Len(lines) THEN <<>>
    ELSE IF Contains(ToLower(lines[i]), searchLower)
         THEN <<i - 1>> \o MatchLines(lines, searchLower, i + 1)
         ELSE MatchLines(lines, searchLower, i + 1)

\* findMatches stopping after the first three matches.
findMatchesFirstThree(content, query) ==
    IF query = <<>> \/ content = <<>> THEN <<>>
    ELSE LET all == MatchLines(SplitLines(content), ToLower(query), 1)
         IN SubSeq(all, 1, IF Len(all) > 3 THEN 3 ELSE Len(all))

findMatches(content, query) ==
    IF query = <<>> \/ content = <<>> THEN <<>>
    ELSE MatchLines(SplitLines(content), ToLower(query), 1)

\* ============================================================ navigation
VARIABLES
    mode,               \* listView | detailView | searchView | detailSearchView
    manPages,           \* the catalog
    filteredPages,      \* the filtered view
    cursor,
    currentContent,     \* the detail text
    previewContent,
    searchQuery,        \* the in-document query
    searchMatches,      \* 0-based line numbers with matches
    currentMatch,       \* index into searchMatches (0-based)
    sectionFilters,
    initialQuery,
    noMatchSuggestions,
    err,
    loading,
    loadingPreview,
    searchInput,        \* value of the list search input
    detailSearchInput,  \* value of the in-document search input
    pending,            \* bag of the commands issued and not yet resolved
    quit,               \* tea.Quit was returned: the program has ended
    scrollTarget        \* the line last handed to the detail viewport
                        \* (SetYOffset, GotoTop)

navVars ==
    <<mode, manPages, filteredPages, cursor, currentContent, previewContent,
      searchQuery, searchMatches, currentMatch, sectionFilters, initialQuery,
      noMatchSuggestions, err, loading, loadingPreview, searchInput,
      detailSearchInput, pending, quit, scrollTarget>>

\* The state of IndexAllManPages (the indexer, below).
VARIABLES
    pages,          \* the catalog GetManPages returned
    failing,        \* the pages whose GetRawManContent fails
    engine,         \* how the index behaves: ok, or which call fails
    mainPc,         \* where the coordinator is
    retErr,         \* what IndexAllManPages returned
    jobs,           \* the jobs channel's buffer
    jobsClosed,
    results,        \* the results channel's buffer
    resultsClosed,
    wg,             \* the WaitGroup's counter
    processed,      \* the atomic counter
    workerPc,       \* per worker: idle, recv, fetched, sent, exited
    workerPage,     \* per worker: the page it holds
    senderNext,     \* how many jobs the sender has sent
    watcherPc,      \* idle, waiting, done
    batch,          \* the document IDs in the open batch
    count,          \* documents added to batches
    committed       \* the batches committed to the index, in order

idxVars ==
    <<pages, failing, engine, mainPc, retErr, jobs, jobsClosed, results,
      resultsClosed, wg, processed, workerPc, workerPage, senderNext,
      watcherPc, batch, count, committed>>

\* One evaluation of findFuzzySuggestions, and one `lazyman -S <query>`
\* (handleSearchIndex, SearchIndexedManPages), both below.
VARIABLES
    fzQuery,        \* findFuzzySuggestions: query
    fzCatalog,      \* findFuzzySuggestions: allPages
    fzResult,       \* what the last evaluation returned
    fzDone,         \* an evaluation has been made
    indexState,     \* the index on disk: missing, present or unreadable
    srchPc,         \* where the invocation is
    srchReport,     \* what it reported when it ended
    searched,       \* index.Search was called
    srchQuery,      \* the query of the invocation
    srchHits,       \* the Content of the hits index.Search returns
    srchResults,    \* the SearchResults built so far
    lvS1,           \* levenshteinDistance: s1
    lvS2,           \* levenshteinDistance: s2
    lvOut,          \* the distances the last evaluation returned
    lvDone          \* an evaluation has been made

fzVars == <<fzQuery, fzCatalog, fzResult, fzDone>>

srchVars ==
    <<indexState, srchPc, srchReport, searched, srchQuery, srchHits,
      srchResults>>

lvVars == <<lvS1, lvS2, lvOut, lvDone>>

auxVars == <<fzVars, srchVars, lvVars>>

\* The initial queries main passes to InitialModel.
InitialQueries == {<<>>, <<"C">>}
\* The characters typed into the search inputs.
TypedChars == {"a"}
\* The section keys pressed.
ToggleKeys == {"1", "2"}

RECURSIVE BagOfSeq(_)
BagOfSeq(cmds) ==
    IF Len(cmds) = 0 THEN EmptyBag
    ELSE SetToBag({Head(cmds)}) (+) BagOfSeq(Tail(cmds))

\* Update returns cmds: they become outstanding.
Issue(cmds) == pending' = pending (+) BagOfSeq(cmds)
\* The command op has resolved into the message being applied, and Update
\* returns cmds.
Resolve(op, cmds) == pending' = (pending (-) SetToBag({op})) (+) BagOfSeq(cmds)

HasRoom == BagCardinality(pending) < MaxPending

\* InitialModel followed by Model.Init
NavInit ==
    /\ mode = "listView"
    /\ manPages = <<>>
    /\ filteredPages = <<>>
    /\ cursor = 0
    /\ currentContent = <<>>
    /\ previewContent = <<>>
    /\ searchQuery = <<>>
    /\ searchMatches = <<>>
    /\ currentMatch = 0
    /\ sectionFilters = InitialFilters
    /\ initialQuery \in InitialQueries
    /\ noMatchSuggestions = <<>>
    /\ err = NoErr
    /\ loading = TRUE
    /\ loadingPreview = FALSE
    /\ searchInput = <<>>
    /\ detailSearchInput = <<>>
    /\ pending = SetToBag({IF initialQuery # <<>>
                           THEN searchManPages(initialQuery)
                           ELSE loadManPages})
    /\ quit = FALSE
    /\ scrollTarget = 0

\* ------------------------------------------------ result messages
\* case manPagesLoadedMsg, the initial-query part: the suggestions after the
\* message, computed only when a query is pending and nothing passed the
\* filters.
ArrivalSuggestions(query, filtered, allPages, old) ==
    IF query # <<>> /\ Len(filtered) = 0
    THEN findFuzzySuggestions(query, allPages)
    ELSE old

\* The initial query left pending when nothing passed the filters.
ArrivalQueryKeptOnNoMatch(query, filtered) ==
    IF Len(filtered) = 0 THEN query ELSE <<>>

\* case manPagesLoadedMsg: initialQuery after the message; every branch that
\* finds it set clears it.
ArrivalQuery(query, filtered) == <<>>

\* The commands of the message with the single match not opened.
ArrivalCmdsNoAutoOpen(query, filtered, suggestions) ==
    IF query # <<>> /\ Len(filtered) = 0
    THEN IF Len(suggestions) > 0
         THEN <<loadPreview(suggestions[1].Name, suggestions[1].Section)>>
         ELSE <<>>
    ELSE IF Len(filtered) > 0
         THEN <<loadPreview(filtered[1].Name, filtered[1].Section)>>
         ELSE <<>>

\* case manPagesLoadedMsg: the commands Update returns: the preview of the
\* first suggestion when a query is pending and nothing matched, the content
\* of the only match when a query is pending, else the preview of the first
\* entry of the filtered view.
ArrivalCmds(query, filtered, suggestions) ==
    IF query # <<>> /\ Len(filtered) = 0
    THEN IF Len(suggestions) > 0
         THEN <<loadPreview(suggestions[1].Name, suggestions[1].Section)>>
         ELSE <<>>
    ELSE IF query # <<>> /\ Len(filtered) = 1
    THEN <<loadManContent(filtered[1].Name, filtered[1].Section)>>
    ELSE IF Len(filtered) > 0
         THEN <<loadPreview(filtered[1].Name, filtered[1].Section)>>
         ELSE <<>>

\* case manPagesLoadedMsg
UpdateManPagesLoaded(op, msg) ==
    LET filtered == applyFilters(sectionFilters, msg.pages)
    IN /\ manPages' = msg.pages
       /\ filteredPages' = filtered
       /\ loading' = FALSE
       /\ cursor' = 0
       /\ noMatchSuggestions' =
              ArrivalSuggestions(initialQuery, filtered, msg.pages,
                                 noMatchSuggestions)
       /\ initialQuery' = ArrivalQuery(initialQuery, filtered)
       /\ Resolve(op, ArrivalCmds(initialQuery, filtered, noMatchSuggestions'))
       /\ UNCHANGED <<mode, currentContent, previewContent, searchQuery,
                      searchMatches, currentMatch, sectionFilters, err,
                      loadingPreview, searchInput, detailSearchInput, quit,
                      scrollTarget, idxVars, auxVars>>

\* case manContentLoadedMsg
UpdateManContentLoaded(op, msg) ==
    /\ currentContent' = msg.content
    /\ mode' = "detailView"
    /\ scrollTarget' = 0
    /\ Resolve(op, <<>>)
    /\ UNCHANGED <<manPages, filteredPages, cursor, previewContent, searchQuery,
                   searchMatches, currentMatch, sectionFilters, initialQuery,
                   noMatchSuggestions, err, loading, loadingPreview,
                   searchInput, detailSearchInput, quit,
                   idxVars, auxVars>>

\* case previewLoadedMsg clearing the loading flag as well.
UpdatePreviewLoadedClearsLoading(op, msg) ==
    /\ previewContent' = msg.content
    /\ loadingPreview' = FALSE
    /\ loading' = FALSE
    /\ Resolve(op, <<>>)
    /\ UNCHANGED <<mode, manPages, filteredPages, cursor, currentContent,
                   searchQuery, searchMatches, currentMatch, sectionFilters,
                   initialQuery, noMatchSuggestions, err,
                   searchInput, detailSearchInput, quit,
                   scrollTarget, idxVars, auxVars>>

\* case previewLoadedMsg
UpdatePreviewLoaded(op, msg) ==
    /\ previewContent' = msg.content
    /\ loadingPreview' = FALSE
    /\ Resolve(op, <<>>)
    /\ UNCHANGED <<mode, manPages, filteredPages, cursor, currentContent,
                   searchQuery, searchMatches, currentMatch, sectionFilters,
                   initialQuery, noMatchSuggestions, err, loading,
                   searchInput, detailSearchInput, quit,
                   scrollTarget, idxVars, auxVars>>

\* case errMsg with the loading flag left as it was.
UpdateErrKeepsLoading(op, msg) ==
    /\ err' = msg.err
    /\ Resolve(op, <<>>)
    /\ UNCHANGED <<mode, manPages, filteredPages, cursor, currentContent,
                   previewContent, searchQuery, searchMatches, currentMatch,
                   sectionFilters, initialQuery, noMatchSuggestions, loading,
                   loadingPreview, searchInput, detailSearchInput, quit,
                   scrollTarget, idxVars, auxVars>>

\* case errMsg
UpdateErr(op, msg) ==
    /\ err' = msg.err
    /\ loading' = FALSE
    /\ Resolve(op, <<>>)
    /\ UNCHANGED <<mode, manPages, filteredPages, cursor, currentContent,
                   previewContent, searchQuery, searchMatches, currentMatch,
                   sectionFilters, initialQuery, noMatchSuggestions,
                   loadingPreview, searchInput, detailSearchInput, quit,
                   scrollTarget, idxVars, auxVars>>

\* ------------------------------------------------------ key messages
\* The list up/down/enter act on: the filtered view, or the suggestions when
\* the filtered view is empty and there are suggestions.
NavigatedList ==
    IF Len(filteredPages) = 0 /\ Len(noMatchSuggestions) > 0
    THEN noMatchSuggestions ELSE filteredPages

\* listView "ctrl+c", "q"
ListQuit ==
    /\ mode = "listView" /\ ~quit
    /\ quit' = TRUE
    /\ UNCHANGED <<mode, manPages, filteredPages, cursor, currentContent,
                    previewContent, searchQuery, searchMatches, currentMatch,
                    sectionFilters, initialQuery, noMatchSuggestions, err,
                    loading, loadingPreview, searchInput, detailSearchInput,
                    pending,
                    scrollTarget, idxVars, auxVars>>

\* "up" moving the cursor without fetching the preview.
ListUpNoPreview ==
    /\ mode = "listView" /\ ~quit /\ HasRoom
    /\ IF cursor > 0
       THEN cursor' = cursor - 1
       ELSE UNCHANGED cursor
    /\ UNCHANGED <<mode, manPages, filteredPages, currentContent,
                   previewContent, searchQuery, searchMatches, currentMatch,
                   sectionFilters, initialQuery, noMatchSuggestions, err,
                   loading, loadingPreview, searchInput, detailSearchInput,
                   pending, quit, scrollTarget, idxVars, auxVars>>

\* "up" without the test that the cursor is above the first entry.
ListUpNoFloor ==
    /\ mode = "listView" /\ ~quit /\ HasRoom
    /\ cursor' = cursor - 1
    /\ IF Len(NavigatedList) > 0 /\ cursor' >= 0
       THEN /\ loadingPreview' = TRUE
            /\ Issue(<<loadPreview(NavigatedList[cursor' + 1].Name,
                                   NavigatedList[cursor' + 1].Section)>>)
       ELSE UNCHANGED <<loadingPreview, pending>>
    /\ UNCHANGED <<mode, manPages, filteredPages, currentContent,
                    previewContent, searchQuery, searchMatches, currentMatch,
                    sectionFilters, initialQuery, noMatchSuggestions, err,
                    loading, searchInput, detailSearchInput, quit,
                    scrollTarget, idxVars, auxVars>>

\* listView "up", "k"
ListUp ==
    /\ mode = "listView" /\ ~quit /\ HasRoom
    /\ IF cursor > 0
       THEN /\ cursor' = cursor - 1
            /\ IF Len(NavigatedList) > 0
               THEN /\ loadingPreview' = TRUE
                    /\ Issue(<<loadPreview(NavigatedList[cursor' + 1].Name,
                                           NavigatedList[cursor' + 1].Section)>>)
               ELSE UNCHANGED <<loadingPreview, pending>>
       ELSE UNCHANGED <<cursor, loadingPreview, pending>>
    /\ UNCHANGED <<mode, manPages, filteredPages, currentContent,
                    previewContent, searchQuery, searchMatches, currentMatch,
                    sectionFilters, initialQuery, noMatchSuggestions, err,
                    loading, searchInput, detailSearchInput, quit,
                    scrollTarget, idxVars, auxVars>>

\* "down" with the bound off by one: cursor < maxLen.
ListDownOffByOne ==
    /\ mode = "listView" /\ ~quit /\ HasRoom
    /\ LET maxLen == Len(NavigatedList)
       IN IF cursor < maxLen
          THEN /\ cursor' = cursor + 1
               /\ IF cursor' < Len(NavigatedList)
                  THEN /\ loadingPreview' = TRUE
                       /\ Issue(<<loadPreview(NavigatedList[cursor' + 1].Name,
                                              NavigatedList[cursor' + 1].Section)>>)
                  ELSE UNCHANGED <<loadingPreview, pending>>
          ELSE UNCHANGED <<cursor, loadingPreview, pending>>
    /\ UNCHANGED <<mode, manPages, filteredPages, currentContent,
                   previewContent, searchQuery, searchMatches, currentMatch,
                   sectionFilters, initialQuery, noMatchSuggestions, err,
                   loading, searchInput, detailSearchInput, quit, scrollTarget, idxVars, auxVars>>

\* listView "down", "j"
ListDown ==
    /\ mode = "listView" /\ ~quit /\ HasRoom
    /\ LET maxLen == Len(NavigatedList)
       IN IF cursor < maxLen - 1
          THEN /\ cursor' = cursor + 1
               /\ IF Len(NavigatedList) > 0
                  THEN /\ loadingPreview' = TRUE
                       /\ Issue(<<loadPreview(NavigatedList[cursor' + 1].Name,
                                              NavigatedList[cursor' + 1].Section)>>)
                  ELSE UNCHANGED <<loadingPreview, pending>>
          ELSE UNCHANGED <<cursor, loadingPreview, pending>>
    /\ UNCHANGED <<mode, manPages, filteredPages, currentContent,
                    previewContent, searchQuery, searchMatches, currentMatch,
                    sectionFilters, initialQuery, noMatchSuggestions, err,
                    loading, searchInput, detailSearchInput, quit,
                    scrollTarget, idxVars, auxVars>>

\* listView "enter"
ListEnter ==
    /\ mode = "listView" /\ ~quit /\ HasRoom
    /\ IF Len(NavigatedList) > 0 /\ cursor < Len(NavigatedList)
       THEN Issue(<<loadManContent(NavigatedList[cursor + 1].Name,
                                   NavigatedList[cursor + 1].Section)>>)
       ELSE UNCHANGED pending
    /\ UNCHANGED <<mode, manPages, filteredPages, cursor, currentContent,
                    previewContent, searchQuery, searchMatches, currentMatch,
                    sectionFilters, initialQuery, noMatchSuggestions, err,
                    loading, loadingPreview, searchInput, detailSearchInput,
                    quit,
                    scrollTarget, idxVars, auxVars>>

\* "/" taken only once the catalog has loaded.
ListSlashWaitsForCatalog ==
    /\ mode = "listView" /\ ~quit
    /\ ~loading
    /\ mode' = "searchView"
    /\ searchInput' = <<>>
    /\ UNCHANGED <<manPages, filteredPages, cursor, currentContent,
                   previewContent, searchQuery, searchMatches, currentMatch,
                   sectionFilters, initialQuery, noMatchSuggestions, err,
                   loading, loadingPreview, detailSearchInput, pending, quit,
                   scrollTarget, idxVars, auxVars>>

\* listView "/"
ListSlash ==
    /\ mode = "listView" /\ ~quit
    /\ mode' = "searchView"
    /\ searchInput' = <<>>
    /\ UNCHANGED <<manPages, filteredPages, cursor, currentContent,
                    previewContent, searchQuery, searchMatches, currentMatch,
                    sectionFilters, initialQuery, noMatchSuggestions, err,
                    loading, loadingPreview, detailSearchInput, pending,
                    quit,
                    scrollTarget, idxVars, auxVars>>

\* The refresh key with every filter switched back on.
ListRefreshResetsFilters ==
    /\ mode = "listView" /\ ~quit /\ HasRoom
    /\ loading' = TRUE
    /\ sectionFilters' = InitialFilters
    /\ Issue(<<loadManPages>>)
    /\ UNCHANGED <<mode, manPages, filteredPages, cursor, currentContent,
                    previewContent, searchQuery, searchMatches, currentMatch,
                    initialQuery, noMatchSuggestions, err,
                    loadingPreview, searchInput, detailSearchInput, quit,
                    scrollTarget, idxVars, auxVars>>

\* listView "r"
ListRefresh ==
    /\ mode = "listView" /\ ~quit /\ HasRoom
    /\ loading' = TRUE
    /\ Issue(<<loadManPages>>)
    /\ UNCHANGED <<mode, manPages, filteredPages, cursor, currentContent,
                    previewContent, searchQuery, searchMatches, currentMatch,
                    sectionFilters, initialQuery, noMatchSuggestions, err,
                    loadingPreview, searchInput, detailSearchInput, quit,
                    scrollTarget, idxVars, auxVars>>

\* The filters with the one for `section` switched off, never back on.
ToggleFilterDisableOnly(filters, section) ==
    [i \in 1..Len(filters) |->
        IF filters[i].Section = section
        THEN [filters[i] EXCEPT !.Enabled = FALSE]
        ELSE filters[i]]

\* The filters with the first one for `section` flipped.
ToggleFilter(filters, section) ==
    IF \E i \in 1..Len(filters) : filters[i].Section = section
    THEN LET i == CHOOSE k \in 1..Len(filters) :
                    /\ filters[k].Section = section
                    /\ \A l \in 1..(k - 1) : filters[l].Section # section
         IN [filters EXCEPT ![i].Enabled = ~filters[i].Enabled]
    ELSE filters

\* The section toggle with the cursor left where it was.
ListToggleNoClamp(section) ==
    /\ mode = "listView" /\ ~quit /\ HasRoom
    /\ sectionFilters' = ToggleFilter(sectionFilters, section)
    /\ filteredPages' = applyFilters(sectionFilters', manPages)
    /\ cursor' = cursor
    /\ IF cursor' < Len(filteredPages')
       THEN /\ loadingPreview' = TRUE
            /\ Issue(<<loadPreview(filteredPages'[cursor' + 1].Name,
                                   filteredPages'[cursor' + 1].Section)>>)
       ELSE UNCHANGED <<loadingPreview, pending>>
    /\ UNCHANGED <<mode, manPages, currentContent, previewContent,
                   searchQuery, searchMatches, currentMatch, initialQuery,
                   noMatchSuggestions, err, loading, searchInput,
                   detailSearchInput, quit, scrollTarget, idxVars, auxVars>>

\* listView "1" .. "9"
ListToggle(section) ==
    /\ mode = "listView" /\ ~quit /\ HasRoom
    /\ sectionFilters' = ToggleFilter(sectionFilters, section)
    /\ filteredPages' = applyFilters(sectionFilters', manPages)
    /\ LET clamped == IF cursor >= Len(filteredPages')
                      THEN Len(filteredPages') - 1 ELSE cursor
       IN cursor' = IF clamped < 0 THEN 0 ELSE clamped
    /\ IF Len(filteredPages') > 0
       THEN /\ loadingPreview' = TRUE
            /\ Issue(<<loadPreview(filteredPages'[cursor' + 1].Name,
                                   filteredPages'[cursor' + 1].Section)>>)
       ELSE UNCHANGED <<loadingPreview, pending>>
    /\ UNCHANGED <<mode, manPages, currentContent, previewContent,
                    searchQuery, searchMatches, currentMatch, initialQuery,
                    noMatchSuggestions, err, loading, searchInput,
                    detailSearchInput, quit,
                    scrollTarget, idxVars, auxVars>>

\* The back key with the match list left as it was.
DetailBackKeepsMatches ==
    /\ mode = "detailView" /\ ~quit
    /\ mode' = "listView"
    /\ currentContent' = <<>>
    /\ searchQuery' = <<>>
    /\ UNCHANGED <<manPages, filteredPages, cursor, previewContent,
                    searchMatches, currentMatch, sectionFilters, initialQuery,
                    noMatchSuggestions, err, loading, loadingPreview,
                    searchInput, detailSearchInput, pending, quit,
                    scrollTarget, idxVars, auxVars>>

\* detailView "ctrl+c", "q", "esc"
DetailBack ==
    /\ mode = "detailView" /\ ~quit
    /\ mode' = "listView"
    /\ currentContent' = <<>>
    /\ searchQuery' = <<>>
    /\ searchMatches' = <<>>
    /\ UNCHANGED <<manPages, filteredPages, cursor, previewContent,
                    currentMatch, sectionFilters, initialQuery,
                    noMatchSuggestions, err, loading, loadingPreview,
                    searchInput, detailSearchInput, pending, quit,
                    scrollTarget, idxVars, auxVars>>

\* detailView "/"
DetailSlash ==
    /\ mode = "detailView" /\ ~quit
    /\ mode' = "detailSearchView"
    /\ detailSearchInput' = <<>>
    /\ UNCHANGED <<manPages, filteredPages, cursor, currentContent,
                    previewContent, searchQuery, searchMatches, currentMatch,
                    sectionFilters, initialQuery, noMatchSuggestions, err,
                    loading, loadingPreview, searchInput, pending, quit,
                    scrollTarget, idxVars, auxVars>>

\* "n" scrolling to the match it leaves rather than the one it moves to.
DetailNextScrollsToOld ==
    /\ mode = "detailView" /\ ~quit
    /\ IF Len(searchMatches) > 0
       THEN /\ currentMatch' = (currentMatch + 1) % Len(searchMatches)
            /\ scrollTarget' = searchMatches[currentMatch + 1]
       ELSE UNCHANGED <<currentMatch, scrollTarget>>
    /\ UNCHANGED <<mode, manPages, filteredPages, cursor, currentContent,
                   previewContent, searchQuery, searchMatches,
                   sectionFilters, initialQuery, noMatchSuggestions, err,
                   loading, loadingPreview, searchInput, detailSearchInput,
                   pending, quit, idxVars, auxVars>>

\* detailView "n"
DetailNext ==
    /\ mode = "detailView" /\ ~quit
    /\ IF Len(searchMatches) > 0
       THEN /\ currentMatch' = (currentMatch + 1) % Len(searchMatches)
            /\ scrollTarget' = searchMatches[currentMatch' + 1]
       ELSE UNCHANGED <<currentMatch, scrollTarget>>
    /\ UNCHANGED <<mode, manPages, filteredPages, cursor, currentContent,
                    previewContent, searchQuery, searchMatches,
                    sectionFilters, initialQuery, noMatchSuggestions, err,
                    loading, loadingPreview, searchInput, detailSearchInput,
                    pending, quit,
                    idxVars, auxVars>>

\* detailView "N"
DetailPrev ==
    /\ mode = "detailView" /\ ~quit
    /\ IF Len(searchMatches) > 0
       THEN /\ currentMatch' = IF currentMatch - 1 < 0
                               THEN Len(searchMatches) - 1
                               ELSE currentMatch - 1
            /\ scrollTarget' = searchMatches[currentMatch' + 1]
       ELSE UNCHANGED <<currentMatch, scrollTarget>>
    /\ UNCHANGED <<mode, manPages, filteredPages, cursor, currentContent,
                    previewContent, searchQuery, searchMatches,
                    sectionFilters, initialQuery, noMatchSuggestions, err,
                    loading, loadingPreview, searchInput, detailSearchInput,
                    pending, quit,
                    idxVars, auxVars>>

\* searchView "esc"
SearchEsc ==
    /\ mode = "searchView" /\ ~quit
    /\ mode' = "listView"
    /\ UNCHANGED <<manPages, filteredPages, cursor, currentContent,
                    previewContent, searchQuery, searchMatches, currentMatch,
                    sectionFilters, initialQuery, noMatchSuggestions, err,
                    loading, loadingPreview, searchInput, detailSearchInput,
                    pending, quit,
                    scrollTarget, idxVars, auxVars>>

\* searchView "enter"
SearchEnter ==
    /\ mode = "searchView" /\ ~quit /\ HasRoom
    /\ mode' = "listView"
    /\ IF searchInput # <<>>
       THEN /\ loading' = TRUE
            /\ Issue(<<searchManPages(searchInput)>>)
       ELSE UNCHANGED <<loading, pending>>
    /\ UNCHANGED <<manPages, filteredPages, cursor, currentContent,
                    previewContent, searchQuery, searchMatches, currentMatch,
                    sectionFilters, initialQuery, noMatchSuggestions, err,
                    loadingPreview, searchInput, detailSearchInput, quit,
                    scrollTarget, idxVars, auxVars>>

\* searchView, any other key: the text input takes the character
SearchType(c) ==
    /\ mode = "searchView" /\ ~quit
    /\ Len(searchInput) < MaxInput
    /\ searchInput' = Append(searchInput, c)
    /\ UNCHANGED <<mode, manPages, filteredPages, cursor, currentContent,
                    previewContent, searchQuery, searchMatches, currentMatch,
                    sectionFilters, initialQuery, noMatchSuggestions, err,
                    loading, loadingPreview, detailSearchInput, pending,
                    quit,
                    scrollTarget, idxVars, auxVars>>

\* detailSearchView "esc"
DetailSearchEsc ==
    /\ mode = "detailSearchView" /\ ~quit
    /\ mode' = "detailView"
    /\ UNCHANGED <<manPages, filteredPages, cursor, currentContent,
                    previewContent, searchQuery, searchMatches, currentMatch,
                    sectionFilters, initialQuery, noMatchSuggestions, err,
                    loading, loadingPreview, searchInput, detailSearchInput,
                    pending, quit,
                    scrollTarget, idxVars, auxVars>>

\* The commit of the in-document search with the current match left as it
\* was.
DetailSearchEnterKeepsCurrent ==
    /\ mode = "detailSearchView" /\ ~quit
    /\ IF detailSearchInput # <<>>
       THEN /\ searchQuery' = detailSearchInput
            /\ searchMatches' = findMatches(currentContent, detailSearchInput)
            /\ IF Len(searchMatches') > 0
               THEN scrollTarget' = searchMatches'[1]
               ELSE UNCHANGED scrollTarget
       ELSE UNCHANGED <<searchQuery, searchMatches, scrollTarget>>
    /\ mode' = "detailView"
    /\ UNCHANGED <<manPages, filteredPages, cursor, currentContent,
                    previewContent, currentMatch, sectionFilters, initialQuery,
                    noMatchSuggestions, err, loading, loadingPreview,
                    searchInput, detailSearchInput, pending, quit,
                    idxVars, auxVars>>

\* detailSearchView "enter"
DetailSearchEnter ==
    /\ mode = "detailSearchView" /\ ~quit
    /\ IF detailSearchInput # <<>>
       THEN /\ searchQuery' = detailSearchInput
            /\ searchMatches' = findMatches(currentContent, detailSearchInput)
            /\ currentMatch' = 0
            /\ IF Len(searchMatches') > 0
               THEN scrollTarget' = searchMatches'[1]
               ELSE UNCHANGED scrollTarget
       ELSE UNCHANGED <<searchQuery, searchMatches, currentMatch, scrollTarget>>
    /\ mode' = "detailView"
    /\ UNCHANGED <<manPages, filteredPages, cursor, currentContent,
                    previewContent, sectionFilters, initialQuery,
                    noMatchSuggestions, err, loading, loadingPreview,
                    searchInput, detailSearchInput, pending, quit,
                    idxVars, auxVars>>

\* detailSearchView, any other key: the text input takes the character
DetailSearchType(c) ==
    /\ mode = "detailSearchView" /\ ~quit
    /\ Len(detailSearchInput) < MaxInput
    /\ detailSearchInput' = Append(detailSearchInput, c)
    /\ UNCHANGED <<mode, manPages, filteredPages, cursor, currentContent,
                    previewContent, searchQuery, searchMatches, currentMatch,
                    sectionFilters, initialQuery, noMatchSuggestions, err,
                    loading, loadingPreview, searchInput, pending, quit,
                    scrollTarget, idxVars, auxVars>>

\* ------------------------------------------------------------ the runtime
\* Model.Update on a result message: the switch on the message's type.
Update(op, msg) ==
    /\ ~quit
    /\ CASE msg.type = "manPagesLoadedMsg" -> UpdateManPagesLoaded(op, msg)
         [] msg.type = "manContentLoadedMsg" -> UpdateManContentLoaded(op, msg)
         [] msg.type = "previewLoadedMsg" -> UpdatePreviewLoaded(op, msg)
         [] msg.type = "errMsg" -> UpdateErr(op, msg)

\* A command outstanding resolves and its message is applied by Update.
DeliverManPagesLoaded ==
    \E op \in BagToSet(pending) : \E msg \in RunCmd(op) :
        msg.type = "manPagesLoadedMsg" /\ Update(op, msg)

DeliverManContentLoaded ==
    \E op \in BagToSet(pending) : \E msg \in RunCmd(op) :
        msg.type = "manContentLoadedMsg" /\ Update(op, msg)

DeliverPreviewLoaded ==
    \E op \in BagToSet(pending) : \E msg \in RunCmd(op) :
        msg.type = "previewLoadedMsg" /\ Update(op, msg)

DeliverErr ==
    \E op \in BagToSet(pending) : \E msg \in RunCmd(op) :
        msg.type = "errMsg" /\ Update(op, msg)

Deliver ==
    \/ DeliverManPagesLoaded
    \/ DeliverManContentLoaded
    \/ DeliverPreviewLoaded
    \/ DeliverErr

\* case tea.KeyMsg
KeyMsg ==
    \/ ListQuit
    \/ ListUp
    \/ ListDown
    \/ ListEnter
    \/ ListSlash
    \/ ListRefresh
    \/ \E section \in ToggleKeys : ListToggle(section)
    \/ DetailBack
    \/ DetailSlash
    \/ DetailNext
    \/ DetailPrev
    \/ SearchEsc
    \/ SearchEnter
    \/ \E c \in TypedChars : SearchType(c)
    \/ DetailSearchEsc
    \/ DetailSearchEnter
    \/ \E c \in TypedChars : DetailSearchType(c)

NavNext == Deliver \/ KeyMsg

\* ================================================================ indexer
\* IndexAllManPages: the coordinator (main goroutine), the fetch workers,
\* the goroutine that closes results once the workers are done, and the
\* goroutine that sends the jobs.

\* numWorkers, the capacity of the results channel and batchSize, scaled down.
NumWorkers == 2
ResultsCap == 1
BatchSize == 2
\* Longest catalog indexed.
MaxIndexed == 3

PageAd == Page(<<"a", "d">>, "1")

\* What GetManPages can hand the indexer.
IndexCatalogs == SubSeqs(<<PageAb, PageAc, PageAd>>, MaxIndexed)

Workers == 1..NumWorkers

\* fmt.Sprintf("%s(%s)", doc.Name, doc.Section)
DocID(doc) == doc.Name \o <<"(", doc.Section, ")">>

EngineOutcomes == {"ok", "removeFails", "createFails", "indexFails", "batchFails"}

SeqToSet(seq) == {seq[i] : i \in 1..Len(seq)}

IdxInit ==
    /\ pages \in IndexCatalogs
    /\ failing \in SUBSET SeqToSet(pages)
    /\ engine \in EngineOutcomes
    /\ mainPc = "remove"
    /\ retErr = NoErr
    /\ jobs = <<>>
    /\ jobsClosed = FALSE
    /\ results = <<>>
    /\ resultsClosed = FALSE
    /\ wg = 0
    /\ processed = 0
    /\ workerPc = [w \in Workers |-> "idle"]
    /\ workerPage = [w \in Workers |-> PageAb]
    /\ senderNext = 0
    /\ watcherPc = "idle"
    /\ batch = <<>>
    /\ count = 0
    /\ committed = <<>>

\* os.RemoveAll(indexPath)
RemoveOld ==
    /\ mainPc = "remove"
    /\ IF engine = "removeFails"
       THEN /\ mainPc' = "returned"
            /\ retErr' = "failed to remove old index"
       ELSE /\ mainPc' = "create"
            /\ UNCHANGED retErr
    /\ UNCHANGED <<pages, failing, engine, jobs, jobsClosed, results,
                   resultsClosed, wg, processed, workerPc, workerPage,
                   senderNext, watcherPc, batch, count, committed,
                   navVars, auxVars>>

\* The creation with its error dropped: the pool starts all the same.
CreateIndexErrorIgnored ==
    /\ mainPc = "create"
    /\ mainPc' = "start"
    /\ UNCHANGED <<pages, failing, engine, retErr, jobs, jobsClosed, results,
                   resultsClosed, wg, processed, workerPc, workerPage,
                   senderNext, watcherPc, batch, count, committed, navVars, auxVars>>

\* bleve.New(indexPath, mapping)
CreateIndex ==
    /\ mainPc = "create"
    /\ IF engine = "createFails"
       THEN /\ mainPc' = "returned"
            /\ retErr' = "failed to create index"
       ELSE /\ mainPc' = "start"
            /\ UNCHANGED retErr
    /\ UNCHANGED <<pages, failing, engine, jobs, jobsClosed, results,
                   resultsClosed, wg, processed, workerPc, workerPage,
                   senderNext, watcherPc, batch, count, committed,
                   navVars, auxVars>>

\* GetManPages, then the pool: every worker started (wg.Add(1) each), the
\* closer and the sender started.  No worker can take a job before the sender
\* runs, so starting them in one step loses no interleaving.
StartPool ==
    /\ mainPc = "start"
    /\ mainPc' = "drain"
    /\ wg' = NumWorkers
    /\ workerPc' = [w \in Workers |-> "recv"]
    /\ watcherPc' = "waiting"
    /\ UNCHANGED <<pages, failing, engine, retErr, jobs, jobsClosed, results,
                   resultsClosed, processed, workerPage, senderNext, batch,
                   count, committed,
                   navVars, auxVars>>

\* The sender: jobs <- page for every page (the buffer holds them all), then
\* close(jobs).
SendJob ==
    /\ mainPc # "start" /\ watcherPc # "idle"
    /\ ~jobsClosed
    /\ IF senderNext < Len(pages)
       THEN /\ jobs' = Append(jobs, pages[senderNext + 1])
            /\ senderNext' = senderNext + 1
            /\ UNCHANGED jobsClosed
       ELSE /\ jobsClosed' = TRUE
            /\ UNCHANGED <<jobs, senderNext>>
    /\ UNCHANGED <<pages, failing, engine, mainPc, retErr, results,
                   resultsClosed, wg, processed, workerPc, workerPage,
                   watcherPc, batch, count, committed,
                   navVars, auxVars>>

\* The worker's loop without the deferred wg.Done.
WorkerRecvNoDone(w) ==
    /\ workerPc[w] = "recv"
    /\ IF Len(jobs) > 0
       THEN /\ workerPage' = [workerPage EXCEPT ![w] = Head(jobs)]
            /\ jobs' = Tail(jobs)
            /\ workerPc' = [workerPc EXCEPT ![w] = "fetch"]
       ELSE /\ jobsClosed
            /\ workerPc' = [workerPc EXCEPT ![w] = "exited"]
            /\ UNCHANGED <<workerPage, jobs>>
    /\ UNCHANGED <<pages, failing, engine, mainPc, retErr, jobsClosed, results,
                   resultsClosed, wg, processed, senderNext, watcherPc, batch,
                   count, committed, navVars, auxVars>>

\* A worker: `for page := range jobs` takes the next job, or leaves the loop
\* when jobs is closed and empty (then the deferred wg.Done runs).
WorkerRecv(w) ==
    /\ workerPc[w] = "recv"
    /\ IF Len(jobs) > 0
       THEN /\ workerPage' = [workerPage EXCEPT ![w] = Head(jobs)]
            /\ jobs' = Tail(jobs)
            /\ workerPc' = [workerPc EXCEPT ![w] = "fetch"]
            /\ UNCHANGED wg
       ELSE /\ jobsClosed
            /\ workerPc' = [workerPc EXCEPT ![w] = "exited"]
            /\ wg' = wg - 1
            /\ UNCHANGED <<workerPage, jobs>>
    /\ UNCHANGED <<pages, failing, engine, mainPc, retErr, jobsClosed, results,
                   resultsClosed, processed, senderNext, watcherPc, batch,
                   count, committed,
                   navVars, auxVars>>

\* The fetch with the failure not counted as processed.
WorkerFetchFailureUncounted(w) ==
    /\ workerPc[w] = "fetch"
    /\ IF workerPage[w] \in failing
       THEN /\ workerPc' = [workerPc EXCEPT ![w] = "recv"]
       ELSE /\ workerPc' = [workerPc EXCEPT ![w] = "send"]
    /\ UNCHANGED <<pages, failing, engine, mainPc, retErr, jobs, jobsClosed,
                   results, resultsClosed, wg, processed, workerPage,
                   senderNext, watcherPc, batch, count, committed, navVars, auxVars>>

\* A worker: GetRawManContent; on failure processed.Add(1) and the next job.
WorkerFetch(w) ==
    /\ workerPc[w] = "fetch"
    /\ IF workerPage[w] \in failing
       THEN /\ processed' = processed + 1
            /\ workerPc' = [workerPc EXCEPT ![w] = "recv"]
       ELSE /\ workerPc' = [workerPc EXCEPT ![w] = "send"]
            /\ UNCHANGED processed
    /\ UNCHANGED <<pages, failing, engine, mainPc, retErr, jobs, jobsClosed,
                   results, resultsClosed, wg, workerPage, senderNext,
                   watcherPc, batch, count, committed,
                   navVars, auxVars>>

\* A worker that adds its document to the batch itself as it sends it.
WorkerSendIndexes(w) ==
    /\ workerPc[w] = "send"
    /\ Len(results) < ResultsCap
    /\ results' = Append(results, workerPage[w])
    /\ batch' = Append(batch, DocID(workerPage[w]))
    /\ workerPc' = [workerPc EXCEPT ![w] = "sent"]
    /\ UNCHANGED <<pages, failing, engine, mainPc, retErr, jobs, jobsClosed,
                   resultsClosed, wg, processed, workerPage, senderNext,
                   watcherPc, count, committed, navVars, auxVars>>

\* A worker: results <- doc, which waits while the buffer is full.
WorkerSend(w) ==
    /\ workerPc[w] = "send"
    /\ Len(results) < ResultsCap
    /\ results' = Append(results, workerPage[w])
    /\ workerPc' = [workerPc EXCEPT ![w] = "sent"]
    /\ UNCHANGED <<pages, failing, engine, mainPc, retErr, jobs, jobsClosed,
                   resultsClosed, wg, processed, workerPage, senderNext,
                   watcherPc, batch, count, committed,
                   navVars, auxVars>>

\* A worker: processed.Add(1) after the send.
WorkerCount(w) ==
    /\ workerPc[w] = "sent"
    /\ processed' = processed + 1
    /\ workerPc' = [workerPc EXCEPT ![w] = "recv"]
    /\ UNCHANGED <<pages, failing, engine, mainPc, retErr, jobs, jobsClosed,
                   results, resultsClosed, wg, workerPage, senderNext,
                   watcherPc, batch, count, committed,
                   navVars, auxVars>>

\* The closer without wg.Wait(): results is closed as soon as it runs.
CloseResultsNoWait ==
    /\ watcherPc = "waiting"
    /\ resultsClosed' = TRUE
    /\ watcherPc' = "done"
    /\ UNCHANGED <<pages, failing, engine, mainPc, retErr, jobs, jobsClosed,
                   results, wg, processed, workerPc, workerPage, senderNext,
                   batch, count, committed, navVars, auxVars>>

\* The closer: wg.Wait(), then close(results).
CloseResults ==
    /\ watcherPc = "waiting"
    /\ wg = 0
    /\ resultsClosed' = TRUE
    /\ watcherPc' = "done"
    /\ UNCHANGED <<pages, failing, engine, mainPc, retErr, jobs, jobsClosed,
                   results, wg, processed, workerPc, workerPage, senderNext,
                   batch, count, committed,
                   navVars, auxVars>>

\* One turn of the drain with the commit every batchSize + 1 documents.
DrainOneCommitsLate ==
    /\ mainPc = "drain"
    /\ Len(results) > 0
    /\ results' = Tail(results)
    /\ IF engine = "indexFails"
       THEN /\ mainPc' = "returned"
            /\ retErr' = "failed to index"
            /\ UNCHANGED <<batch, count, committed>>
       ELSE /\ count' = count + 1
            /\ IF count' % (BatchSize + 1) = 0
               THEN IF engine = "batchFails"
                    THEN /\ mainPc' = "returned"
                         /\ retErr' = "failed to commit batch"
                         /\ batch' = Append(batch, DocID(Head(results)))
                         /\ UNCHANGED committed
                    ELSE /\ committed' =
                              Append(committed, Append(batch, DocID(Head(results))))
                         /\ batch' = <<>>
                         /\ UNCHANGED <<mainPc, retErr>>
               ELSE /\ batch' = Append(batch, DocID(Head(results)))
                    /\ UNCHANGED <<mainPc, retErr, committed>>
    /\ UNCHANGED <<pages, failing, engine, jobs, jobsClosed, resultsClosed, wg,
                   processed, workerPc, workerPage, senderNext, watcherPc,
                   navVars, auxVars>>

\* The coordinator: one turn of `for doc := range results`: batch.Index,
\* count++, and the commit of a full batch.
DrainOne ==
    /\ mainPc = "drain"
    /\ Len(results) > 0
    /\ results' = Tail(results)
    /\ IF engine = "indexFails"
       THEN /\ mainPc' = "returned"
            /\ retErr' = "failed to index"
            /\ UNCHANGED <<batch, count, committed>>
       ELSE /\ count' = count + 1
            /\ IF count' % BatchSize = 0
               THEN IF engine = "batchFails"
                    THEN /\ mainPc' = "returned"
                         /\ retErr' = "failed to commit batch"
                         /\ batch' = Append(batch, DocID(Head(results)))
                         /\ UNCHANGED committed
                    ELSE /\ committed' =
                              Append(committed, Append(batch, DocID(Head(results))))
                         /\ batch' = <<>>
                         /\ UNCHANGED <<mainPc, retErr>>
               ELSE /\ batch' = Append(batch, DocID(Head(results)))
                    /\ UNCHANGED <<mainPc, retErr, committed>>
    /\ UNCHANGED <<pages, failing, engine, jobs, jobsClosed, resultsClosed, wg,
                   processed, workerPc, workerPage, senderNext, watcherPc,
                   navVars, auxVars>>

\* The end of the drain without the commit of the batch left over.
FinishDrainNoFinalCommit ==
    /\ mainPc = "drain"
    /\ Len(results) = 0
    /\ resultsClosed
    /\ mainPc' = "returned"
    /\ UNCHANGED <<pages, failing, engine, retErr, jobs, jobsClosed, results,
                   resultsClosed, wg, processed, workerPc, workerPage,
                   senderNext, watcherPc, batch, count, committed, navVars, auxVars>>

\* The coordinator: results is closed and empty, the loop ends; the batch
\* left over is committed when it holds anything.
FinishDrain ==
    /\ mainPc = "drain"
    /\ Len(results) = 0
    /\ resultsClosed
    /\ IF Len(batch) > 0
       THEN IF engine = "batchFails"
            THEN /\ mainPc' = "returned"
                 /\ retErr' = "failed to commit final batch"
                 /\ UNCHANGED <<batch, committed>>
            ELSE /\ committed' = Append(committed, batch)
                 /\ batch' = <<>>
                 /\ mainPc' = "returned"
                 /\ UNCHANGED retErr
       ELSE /\ mainPc' = "returned"
            /\ UNCHANGED <<retErr, batch, committed>>
    /\ UNCHANGED <<pages, failing, engine, jobs, jobsClosed, results,
                   resultsClosed, wg, processed, workerPc, workerPage,
                   senderNext, watcherPc, count,
                   navVars, auxVars>>

IdxNext ==
    \/ RemoveOld
    \/ CreateIndex
    \/ StartPool
    \/ SendJob
    \/ \E w \in Workers : WorkerRecv(w)
    \/ \E w \in Workers : WorkerFetch(w)
    \/ \E w \in Workers : WorkerSend(w)
    \/ \E w \in Workers : WorkerCount(w)
    \/ CloseResults
    \/ DrainOne
    \/ FinishDrain

\* ================================================= fuzzy suggestions
\* Longest catalog handed to findFuzzySuggestions.
MaxFuzzyPages == 12

\* The i-th page of the catalogs tried: i \div 4 times "a", then 1, 3, 5 or
\* 7 times "c".
FuzzyPage(i) ==
    Page([k \in 1..((i \div 4) + 2 * (i % 4) + 1) |->
             IF k <= i \div 4 THEN "a" ELSE "c"], "1")

FuzzyUniverse == [i \in 1..MaxFuzzyPages |-> FuzzyPage(i - 1)]

FuzzyCatalogs == SubSeqs(FuzzyUniverse, MaxFuzzyPages)

FuzzyQueries == {<<"a">>, <<"A", "c">>}

FzInit ==
    /\ fzQuery \in FuzzyQueries
    /\ fzCatalog \in FuzzyCatalogs
    /\ fzResult = <<>>
    /\ fzDone = FALSE

\* The evaluation reading the receiver's filters: only the pages that pass
\* them are scored.
EvalFuzzyFiltered ==
    /\ fzResult' = findFuzzySuggestions(fzQuery,
                                        applyFilters(sectionFilters, fzCatalog))
    /\ fzDone' = TRUE
    /\ UNCHANGED <<fzQuery, fzCatalog, navVars, idxVars, srchVars, lvVars>>

\* m.findFuzzySuggestions(query, allPages), evaluated in whatever state the
\* machine is in.
EvalFuzzy ==
    /\ fzResult' = findFuzzySuggestions(fzQuery, fzCatalog)
    /\ fzDone' = TRUE
    /\ UNCHANGED <<fzQuery, fzCatalog, navVars, idxVars, srchVars, lvVars>>

\* The machine's state changes between evaluations: filters and mode.
FuzzyNext ==
    \/ EvalFuzzy
    \/ \E section \in ToggleKeys : ListToggle(section)
    \/ ListSlash
    \/ SearchEsc

\* ===================================================== indexed search
\* Longest document searched, in lines.
MaxLines == 7

\* contextLines as SearchIndexedManPages passes it, and the cap on the
\* excerpts of one document.
ContextLines == 3
MaxExcerpts == 3

RECURSIVE JoinLines(_)
\* strings.Join(lines, "\n")
JoinLines(lines) ==
    IF Len(lines) = 0 THEN <<>>
    ELSE IF Len(lines) = 1 THEN lines[1]
    ELSE lines[1] \o <<NL>> \o JoinLines(Tail(lines))

IsSpace(c) == c \in {" ", NL, "\t", "\r"}

RECURSIVE TrimLeft(_)
TrimLeft(s) ==
    IF Len(s) > 0 /\ IsSpace(s[1]) THEN TrimLeft(Tail(s)) ELSE s

RECURSIVE TrimRight(_)
TrimRight(s) ==
    IF Len(s) > 0 /\ IsSpace(s[Len(s)])
    THEN TrimRight(SubSeq(s, 1, Len(s) - 1)) ELSE s

\* strings.TrimSpace
TrimSpace(s) == TrimRight(TrimLeft(s))

\* The lines a document is made of: a matching line, another line, a blank.
LineAlphabet == {<<"a">>, <<"b">>, <<" ">>}

\* The Content fields the index can hold.
Docs == {JoinLines(l) : l \in UNION {[1..n -> LineAlphabet] : n \in 1..MaxLines}}

SearchQueries == {<<"A">>}

\* extractMatchingLines, first loop: the 0-based numbers of the lines that
\* contain the query, case-insensitively (the keys of matchedLines).
MatchedLines(lines, queryLower) ==
    {i \in 0..(Len(lines) - 1) : Contains(ToLower(lines[i + 1]), queryLower)}

RECURSIVE Arrangements(_, _)
\* The ways `for lineNum := range matchedLines` can visit keys before the
\* loop breaks at n excerpts: a Go map is ranged over in no specified order.
Arrangements(keys, n) ==
    IF n = 0 \/ keys = {} THEN {<<>>}
    ELSE UNION {{<<k>> \o rest : rest \in Arrangements(keys \ {k}, n - 1)} :
                   k \in keys}

\* The context block of line lineNum: lines[start:end] joined and trimmed.
ContextBlock(lines, lineNum, contextLines) ==
    LET start == IF lineNum - contextLines < 0 THEN 0 ELSE lineNum - contextLines
        end == IF lineNum + contextLines + 1 > Len(lines)
               THEN Len(lines) ELSE lineNum + contextLines + 1
    IN TrimSpace(JoinLines(SubSeq(lines, start + 1, end)))

\* extractMatchingLines with no limit on the excerpts.
extractMatchingLinesUncapped(content, query, contextLines) ==
    LET lines == SplitLines(content)
        matched == MatchedLines(lines, ToLower(query))
    IN {[i \in 1..Len(order) |-> ContextBlock(lines, order[i], contextLines)] :
            order \in Arrangements(matched, Cardinality(matched))}

\* extractMatchingLines(content, query, contextLines): what it can return.
extractMatchingLines(content, query, contextLines) ==
    LET lines == SplitLines(content)
        matched == MatchedLines(lines, ToLower(query))
    IN {[i \in 1..Len(order) |-> ContextBlock(lines, order[i], contextLines)] :
            order \in Arrangements(matched, MaxExcerpts)}

SrchInit ==
    /\ indexState \in {"missing", "present", "unreadable"}
    /\ srchPc = "check"
    /\ srchReport = "none"
    /\ searched = FALSE
    /\ srchQuery \in SearchQueries
    /\ srchHits \in IF indexState = "present"
                    THEN {<<>>} \cup {<<d>> : d \in Docs}
                    ELSE {<<>>}
    /\ srchResults = <<>>

\* handleSearchIndex going on to the search whatever IndexExists says.
CheckIndexNoGate ==
    /\ srchPc = "check"
    /\ srchPc' = "open"
    /\ UNCHANGED <<indexState, srchReport, searched, srchQuery, srchHits,
                   srchResults, fzVars, lvVars, navVars, idxVars>>

\* handleSearchIndex with a query: IndexExists (os.Stat of the index path);
\* without the index it reports that and exits.
CheckIndex ==
    /\ srchPc = "check"
    /\ IF indexState = "missing"
       THEN /\ srchReport' = "Search index not found"
            /\ srchPc' = "exited"
       ELSE /\ srchPc' = "open"
            /\ UNCHANGED srchReport
    /\ UNCHANGED <<indexState, searched, srchQuery, srchHits, srchResults,
                   fzVars, lvVars, navVars, idxVars>>

\* SearchIndexedManPages: bleve.Open.  Whether the error it gives for a
\* missing path satisfies os.IsNotExist is the library's matter: either
\* report can come of it.
OpenIndex ==
    /\ srchPc = "open"
    /\ CASE indexState = "present" ->
              /\ srchPc' = "search"
              /\ UNCHANGED srchReport
         [] indexState = "unreadable" ->
              /\ srchPc' = "exited"
              /\ srchReport' = "failed to open index"
         [] indexState = "missing" ->
              /\ srchPc' = "exited"
              /\ srchReport' \in {"index not found", "failed to open index"}
    /\ UNCHANGED <<indexState, searched, srchQuery, srchHits, srchResults,
                   fzVars, lvVars, navVars, idxVars>>

\* SearchIndexedManPages: index.Search, which can fail.
ExecSearch ==
    /\ srchPc = "search"
    /\ searched' = TRUE
    /\ \/ /\ srchPc' = "convert"
          /\ UNCHANGED srchReport
       \/ /\ srchPc' = "exited"
          /\ srchReport' = "search execution failed"
    /\ UNCHANGED <<indexState, srchQuery, srchHits, srchResults,
                   fzVars, lvVars, navVars, idxVars>>

\* SearchIndexedManPages: one hit made a SearchResult.
ConvertHit ==
    /\ srchPc = "convert"
    /\ Len(srchResults) < Len(srchHits)
    /\ \E matches \in extractMatchingLines(srchHits[Len(srchResults) + 1],
                                           srchQuery, ContextLines) :
          srchResults' = Append(srchResults,
                                [Matches |-> matches, TotalHits |-> Len(matches)])
    /\ UNCHANGED <<indexState, srchPc, srchReport, searched, srchQuery,
                   srchHits, fzVars, lvVars, navVars, idxVars>>

\* SearchIndexedManPages: return results, nil.
ReturnResults ==
    /\ srchPc = "convert"
    /\ Len(srchResults) = Len(srchHits)
    /\ srchPc' = "done"
    /\ srchReport' = "ok"
    /\ UNCHANGED <<indexState, searched, srchQuery, srchHits, srchResults,
                   fzVars, lvVars, navVars, idxVars>>

SrchNext ==
    \/ CheckIndex
    \/ OpenIndex
    \/ ExecSearch
    \/ ConvertHit
    \/ ReturnResults

\* ================================================= in-document search
\* Longest detail text searched, in lines.
MaxDetailLines == 5

\* The lines a detail text is made of: one that matches "a" in upper case,
\* one that holds it inside, one without it, and the empty line.
DetailLineAlphabet == {<<"A">>, <<"b", "a">>, <<"c">>, <<>>}

\* The texts `man` can have printed for the page that is open.
DetailDocs ==
    {JoinLines(l) :
        l \in UNION {[1..n -> DetailLineAlphabet] : n \in 1..MaxDetailLines}}

\* A page has been opened from a loaded catalog and its text, whatever it
\* is, is shown in Detail with nothing outstanding.
DetailOpen ==
    /\ mode = "detailView"
    /\ manPages = <<PageAb>>
    /\ filteredPages = <<PageAb>>
    /\ cursor = 0
    /\ currentContent \in DetailDocs
    /\ previewContent = currentContent
    /\ searchQuery = <<>>
    /\ searchMatches = <<>>
    /\ currentMatch = 0
    /\ sectionFilters = InitialFilters
    /\ initialQuery = <<>>
    /\ noMatchSuggestions = <<>>
    /\ err = NoErr
    /\ loading = FALSE
    /\ loadingPreview = FALSE
    /\ searchInput = <<>>
    /\ detailSearchInput = <<>>
    /\ pending = EmptyBag
    /\ quit = FALSE
    /\ scrollTarget = 0

\* The keys of the in-document search.
InDocumentNext ==
    \/ DetailSlash
    \/ \E c \in TypedChars : DetailSearchType(c)
    \/ DetailSearchEnter
    \/ DetailSearchEsc
    \/ DetailNext
    \/ DetailPrev

\* ====================================================== edit distance
\* Longest string handed to levenshteinDistance.
MaxWord == 3

\* The characters of the strings tried: a letter in both cases and two more.
WordAlphabet == {"e", "E", "p", "r"}

\* Every string of up to MaxWord characters of the alphabet.
Words == UNION {[1..n -> WordAlphabet] : n \in 0..MaxWord}

Grep == <<"g", "r", "e", "p">>
Grpe == <<"g", "r", "p", "e">>

\* The pairs levenshteinDistance is called on.
LvInit ==
    /\ \E pair \in (Words \X Words) \cup {<<Grep, Grpe>>} :
           lvS1 = pair[1] /\ lvS2 = pair[2]
    /\ lvOut = <<>>
    /\ lvDone = FALSE

\* levenshteinDistance called on the pair both ways round, on s1 and itself,
\* and on s1 and the empty string both ways round.
EvalDistance ==
    /\ ~lvDone
    /\ lvOut' = [ab |-> levenshteinDistance(lvS1, lvS2),
                 ba |-> levenshteinDistance(lvS2, lvS1),
                 aa |-> levenshteinDistance(lvS1, lvS1),
                 ae |-> levenshteinDistance(lvS1, <<>>),
                 ea |-> levenshteinDistance(<<>>, lvS1)]
    /\ lvDone' = TRUE
    /\ UNCHANGED <<lvS1, lvS2, navVars, idxVars, fzVars, srchVars>>

\* ======================================================= specifications
vars == <<navVars, idxVars, auxVars>>

\* The indexer is not running while the interface is.
IdxIdle ==
    /\ pages = <<>>
    /\ failing = {}
    /\ engine = "ok"
    /\ mainPc = "idle"
    /\ retErr = NoErr
    /\ jobs = <<>>
    /\ jobsClosed = FALSE
    /\ results = <<>>
    /\ resultsClosed = FALSE
    /\ wg = 0
    /\ processed = 0
    /\ workerPc = [w \in Workers |-> "idle"]
    /\ workerPage = [w \in Workers |-> PageAb]
    /\ senderNext = 0
    /\ watcherPc = "idle"
    /\ batch = <<>>
    /\ count = 0
    /\ committed = <<>>

\* The interface is not running while `lazyman -S` builds the index.
NavIdle ==
    /\ NavInit
    /\ initialQuery = <<>>

\* No evaluation of the suggestions is being observed.
FzIdle ==
    /\ fzQuery = <<>>
    /\ fzCatalog = <<>>
    /\ fzResult = <<>>
    /\ fzDone = FALSE

\* No evaluation of the edit distance is being observed.
LvIdle ==
    /\ lvS1 = <<>>
    /\ lvS2 = <<>>
    /\ lvOut = <<>>
    /\ lvDone = FALSE

\* No `lazyman -S <query>` is running.
SrchIdle ==
    /\ indexState = "missing"
    /\ srchPc = "idle"
    /\ srchReport = "none"
    /\ searched = FALSE
    /\ srchQuery = <<>>
    /\ srchHits = <<>>
    /\ srchResults = <<>>

\* The interactive program.
Init == NavInit /\ IdxIdle /\ FzIdle /\ SrchIdle /\ LvIdle

Next == NavNext

Spec == Init /\ [][Next]_vars

\* The program started without an initial query, with every catalog command
\* that stays outstanding eventually returning its message: the runtime runs
\* each command in its own goroutine and hands its message to Update.
NavFairInit == NavIdle /\ IdxIdle /\ FzIdle /\ SrchIdle /\ LvIdle

NavFairSpec ==
    /\ NavFairInit
    /\ [][Next]_vars
    /\ WF_vars(DeliverManPagesLoaded)

\* A rebuild of the index.
IndexInit == IdxInit /\ NavIdle /\ FzIdle /\ SrchIdle /\ LvIdle

IndexNext == IdxNext

IndexSpec == IndexInit /\ [][IndexNext]_vars

\* Evaluations of findFuzzySuggestions on every query and catalog tried,
\* while the machine waits for its catalog.
FuzzyInit == NavIdle /\ IdxIdle /\ FzInit /\ SrchIdle /\ LvIdle

FuzzySpec == FuzzyInit /\ [][FuzzyNext]_vars

\* The in-document search of an open page.
InDocumentInit == DetailOpen /\ IdxIdle /\ FzIdle /\ SrchIdle /\ LvIdle

InDocumentSpec == InDocumentInit /\ [][InDocumentNext]_vars

\* Calls of levenshteinDistance.
DistanceInit == NavIdle /\ IdxIdle /\ FzIdle /\ SrchIdle /\ LvInit

DistanceSpec == DistanceInit /\ [][EvalDistance]_vars

\* One `lazyman -S <query>`.
SearchInit == NavIdle /\ IdxIdle /\ FzIdle /\ SrchInit /\ LvIdle

SearchSpec == SearchInit /\ [][SrchNext]_vars

\* The coordinator's steps.
Coordinator == RemoveOld \/ CreateIndex \/ StartPool \/ DrainOne \/ FinishDrain

\* A worker's steps.
Worker(w) == WorkerRecv(w) \/ WorkerFetch(w) \/ WorkerSend(w) \/ WorkerCount(w)

\* A rebuild under the Go scheduler: every goroutine that can take a step
\* eventually takes one.
IndexFairSpec ==
    /\ IndexSpec
    /\ WF_vars(Coordinator)
    /\ WF_vars(SendJob)
    /\ WF_vars(CloseResults)
    /\ \A w \in Workers : WF_vars(Worker(w))

\* ================================================================ claims
Max(a, b) == IF a > b THEN a ELSE b

\* The sections whose filter is enabled.
EnabledSections ==
    {sectionFilters[i].Section : i \in {k \in 1..Len(sectionFilters) :
                                          sectionFilters[k].Enabled}}

\* C1: in every reachable state the filtered view is the subsequence of the
\* catalog made of exactly the entries whose section has an enabled filter,
\* in catalog order.
C1_FilteredViewIsEnabledSubsequence ==
    filteredPages = SelectSeq(manPages, LAMBDA p : p.Section \in EnabledSections)

\* A catalog of two entries of which one is filtered out.
C1_Witness ==
    /\ Len(manPages) = 2
    /\ Len(filteredPages) = 1
    /\ EnabledSections # {sectionFilters[i].Section : i \in 1..Len(sectionFilters)}

CursorInFilteredView ==
    0 <= cursor /\ cursor <= Max(0, Len(filteredPages) - 1)

\* C2: right after a catalog-arrival message or a section toggle is applied,
\* 0 <= cursor <= max(0, len(filtered view) - 1).
C2_CursorClampedAfterCatalogOrToggle ==
    [][(DeliverManPagesLoaded \/ \E section \in ToggleKeys : ListToggle(section))
         => CursorInFilteredView']_vars

\* A toggle has shortened a two-entry catalog's view to one entry, on which
\* the cursor stands.
C2_Witness ==
    /\ Len(manPages) = 2
    /\ Len(filteredPages) = 1
    /\ cursor = 0
    /\ ~loading

\* C3 as claimed: after every message the cursor is within the filtered
\* view, also while the suggestions are the list navigated.
C3_CursorInFilteredViewAlways == CursorInFilteredView

\* C3 as amended: after every message the cursor is within the list being
\* navigated: the filtered view, or the suggestions when the filtered view is
\* empty and there are suggestions.
C3_CursorInNavigatedList ==
    0 <= cursor /\ cursor <= Max(0, Len(NavigatedList) - 1)

\* The cursor stands on the second suggestion while the filtered view is
\* empty.
C3_Witness ==
    /\ Len(filteredPages) = 0
    /\ Len(noMatchSuggestions) = 2
    /\ cursor = 1

\* The step applies the result of the outstanding command op.
Resolved(op) == pending (-) SetToBag({op})

\* C4: the catalog arrival applied while an initial query is pending: with
\* an empty filtered view the suggestions are computed, the mode stays and
\* the first suggestion's preview (if any) is fetched; with one entry its
\* content is loaded and no preview fetched; with more the mode stays and the
\* first entry's preview is fetched.  A content load that resolves
\* successfully puts the machine in Detail with that entry's text.
C4_InitialQueryOutcomes ==
    [][/\ \A op \in BagToSet(pending) : \A msg \in RunCmd(op) :
            (msg.type = "manPagesLoadedMsg" /\ initialQuery # <<>> /\ Update(op, msg))
            => /\ mode' = mode
               /\ filteredPages' =
                      SelectSeq(msg.pages, LAMBDA p : p.Section \in EnabledSections)
               /\ CASE Len(filteredPages') = 0 ->
                         /\ noMatchSuggestions' =
                                findFuzzySuggestions(initialQuery, msg.pages)
                         /\ pending' =
                                IF Len(noMatchSuggestions') > 0
                                THEN Resolved(op) (+) SetToBag({
                                         loadPreview(noMatchSuggestions'[1].Name,
                                                     noMatchSuggestions'[1].Section)})
                                ELSE Resolved(op)
                    [] Len(filteredPages') = 1 ->
                         /\ noMatchSuggestions' = noMatchSuggestions
                         /\ pending' = Resolved(op) (+) SetToBag({
                                loadManContent(filteredPages'[1].Name,
                                               filteredPages'[1].Section)})
                    [] OTHER ->
                         /\ noMatchSuggestions' = noMatchSuggestions
                         /\ pending' = Resolved(op) (+) SetToBag({
                                loadPreview(filteredPages'[1].Name,
                                            filteredPages'[1].Section)})
       /\ \A op \in BagToSet(pending) : \A msg \in RunCmd(op) :
            (msg.type = "manContentLoadedMsg" /\ Update(op, msg))
            => /\ mode' = "detailView"
               /\ currentContent' = ManText(op.name, op.section)
      ]_vars

\* The initial query matched one entry, whose content load is outstanding,
\* with no preview fetched.
C4_Witness ==
    /\ Len(filteredPages) = 1
    /\ previewContent = <<>>
    /\ ~loadingPreview
    /\ mode = "listView"
    /\ initialQuery = <<>>
    /\ ~loading
    /\ pending = SetToBag({loadManContent(filteredPages[1].Name,
                                          filteredPages[1].Section)})

\* C5: every catalog arrival leaves the initial-query flag cleared, a cleared
\* flag stays cleared, and an arrival applied with the flag cleared computes
\* no suggestions and opens nothing.
C5_InitialQueryAppliedOnce ==
    [][/\ DeliverManPagesLoaded => initialQuery' = <<>>
       /\ initialQuery = <<>> => initialQuery' = <<>>
       /\ (DeliverManPagesLoaded /\ initialQuery = <<>>)
          => /\ noMatchSuggestions' = noMatchSuggestions
             /\ \A c \in BagToSet(pending') :
                    c.kind = "loadManContent"
                    => /\ c \in BagToSet(pending)
                       /\ CopiesIn(c, pending') <= CopiesIn(c, pending)
      ]_vars

\* A later catalog with a single entry has arrived after the initial
\* query's suggestions were shown: it is listed, not opened.
C5_Witness ==
    /\ noMatchSuggestions = <<PageAb>>
    /\ manPages = <<PageAc>>
    /\ filteredPages = <<PageAc>>
    /\ mode = "listView"
    /\ currentContent = <<>>
    /\ pending = SetToBag({loadPreview(PageAc.Name, PageAc.Section)})

C7_SuccessClearsError ==
    [][\A op \in BagToSet(pending) : \A r \in Outcomes(op) :
          (err # NoErr /\ r.err = NoErr /\ Update(op, ResultMsg(op, r)))
          => err' = NoErr]_vars

\* C8: in every state before quit, whatever is loading or outstanding, each
\* outstanding result can be applied and each key of the current mode is
\* taken by its handler (the handlers that issue a command, while the model
\* has room for one; the text inputs, while the model's text has room).
C8_AlwaysResponsive ==
    ~quit =>
      /\ \A op \in BagToSet(pending) : \A msg \in RunCmd(op) :
             ENABLED Update(op, msg)
      /\ mode = "listView" =>
             /\ ENABLED ListQuit
             /\ ENABLED ListSlash
             /\ HasRoom => /\ ENABLED ListUp
                           /\ ENABLED ListDown
                           /\ ENABLED ListEnter
                           /\ ENABLED ListRefresh
                           /\ \A section \in ToggleKeys : ENABLED ListToggle(section)
      /\ mode = "detailView" =>
             /\ ENABLED DetailBack
             /\ ENABLED DetailSlash
             /\ ENABLED DetailNext
             /\ ENABLED DetailPrev
      /\ mode = "searchView" =>
             /\ ENABLED SearchEsc
             /\ HasRoom => ENABLED SearchEnter
             /\ Len(searchInput) < MaxInput
                    => \A c \in TypedChars : ENABLED SearchType(c)
      /\ mode = "detailSearchView" =>
             /\ ENABLED DetailSearchEsc
             /\ ENABLED DetailSearchEnter
             /\ Len(detailSearchInput) < MaxInput
                    => \A c \in TypedChars : ENABLED DetailSearchType(c)

\* The catalog is loading, a preview is loading, as many commands as the
\* model holds are outstanding, and the machine is in the list.
C8_Witness ==
    /\ ~quit
    /\ loading
    /\ loadingPreview
    /\ mode = "listView"
    /\ BagCardinality(pending) = MaxPending
    /\ Len(filteredPages) > 0

RECURSIVE SumLen(_)
\* the number of documents in a sequence of batches
SumLen(batches) ==
    IF Len(batches) = 0 THEN 0 ELSE Len(Head(batches)) + SumLen(Tail(batches))

\* IndexAllManPages has returned nil.
Completed == mainPc = "returned" /\ retErr = NoErr

\* C9: a completed rebuild of a catalog of N entries of which F fail to
\* fetch has indexed N - F documents, all of them committed, and its
\* processed counter is N.
C9_IndexedAndProcessedCounts ==
    Completed =>
      /\ count = Len(pages) - Cardinality(failing)
      /\ SumLen(committed) = Len(pages) - Cardinality(failing)
      /\ processed = Len(pages)

\* A rebuild of three pages of which one fails has completed.
C9_Witness ==
    /\ Completed
    /\ Len(pages) = 3
    /\ Cardinality(failing) = 1

\* Every goroutine of the rebuild has ended: the workers have left their
\* loop, results is closed and the coordinator has returned.
Terminated ==
    /\ mainPc = "returned"
    /\ \A w \in Workers : workerPc[w] = "exited"
    /\ jobsClosed
    /\ resultsClosed
    /\ watcherPc = "done"
    /\ Len(results) = 0

\* C10: under fair scheduling and with the index's calls succeeding, the
\* rebuild terminates, whatever the catalog and the fetch failures.
C10_RebuildTerminates == (engine = "ok") ~> (Terminated /\ retErr = NoErr)

\* A rebuild of three pages of which two fail has terminated.
C10_Witness ==
    /\ Terminated
    /\ engine = "ok"
    /\ Len(pages) = 3
    /\ Cardinality(failing) = 2

\* C11 as claimed: a rebuild returns an error only when removing the old
\* index or creating the new one failed (the catalog is never unavailable:
\* GetManPages returns no error).
C11_OnlySetupFailuresAbort ==
    (mainPc = "returned" /\ retErr # NoErr)
        => engine \in {"removeFails", "createFails"}

\* C12: when removing the old index or creating the new one fails, no worker
\* is ever started, no job is sent, no entry is fetched, no document reaches
\* the coordinator or the index, and the rebuild returns with an error.
C12_SetupFailureStartsNothing ==
    engine \in {"removeFails", "createFails"} =>
      /\ \A w \in Workers : workerPc[w] = "idle"
      /\ watcherPc = "idle"
      /\ wg = 0
      /\ senderNext = 0 /\ jobs = <<>> /\ ~jobsClosed
      /\ processed = 0
      /\ results = <<>> /\ batch = <<>> /\ count = 0 /\ committed = <<>>
      /\ mainPc \in {"remove", "create", "returned"}
      /\ mainPc = "returned" => retErr # NoErr

\* The creation of the index failed for a catalog of three pages and the
\* rebuild has returned.
C12_Witness ==
    /\ engine = "createFails"
    /\ mainPc = "returned"
    /\ retErr = "failed to create index"
    /\ Len(pages) = 3

RECURSIVE Flatten(_)
\* the documents of a sequence of batches, in commit order
Flatten(batches) ==
    IF Len(batches) = 0 THEN <<>> ELSE Head(batches) \o Flatten(Tail(batches))

\* the composite IDs the index holds
CommittedIDs == SeqToSet(Flatten(committed))

\* C13: the IDs committed by a completed rebuild are exactly name(section)
\* of the catalog entries whose fetch succeeds, each committed once, whatever
\* the interleaving: a function of the catalog and the fetch outcomes alone.
C13_CommittedIDsAreFetchedEntries ==
    Completed =>
      /\ CommittedIDs = {DocID(p) : p \in SeqToSet(pages) \ failing}
      /\ Len(Flatten(committed)) = Cardinality(CommittedIDs)

\* A completed rebuild of three pages, one failing, whose documents reached
\* the coordinator out of catalog order.
C13_Witness ==
    /\ Completed
    /\ pages = <<PageAb, PageAc, PageAd>>
    /\ failing = {PageAc}
    /\ Flatten(committed) = <<DocID(PageAd), DocID(PageAb)>>

\* C16: in Detail with n > 0 matches and index i, "n" sets the index to
\* (i + 1) mod n and "N" to (i - 1) mod n, each handing that match's line to
\* the viewport; committing a non-empty in-document query records the lines
\* of the text that contain it, sets the index to 0 and hands the first
\* match's line (if any) to the viewport.
C16_MatchNavigationWraps ==
    [][LET n == Len(searchMatches) IN
       /\ (DetailNext /\ n > 0)
          => /\ currentMatch' = (currentMatch + 1) % n
             /\ scrollTarget' = searchMatches[currentMatch' + 1]
             /\ searchMatches' = searchMatches
       /\ (DetailPrev /\ n > 0)
          => /\ currentMatch' = (currentMatch - 1 + n) % n
             /\ scrollTarget' = searchMatches[currentMatch' + 1]
             /\ searchMatches' = searchMatches
       /\ (DetailSearchEnter /\ detailSearchInput # <<>>)
          => /\ currentMatch' = 0
             /\ searchMatches' = findMatches(currentContent, detailSearchInput)
             /\ Len(searchMatches') > 0 => scrollTarget' = searchMatches'[1]
      ]_vars

\* The second of two matches (lines 0 and 2) is the current one and the
\* viewport was handed its line.
C16_Witness ==
    /\ mode = "detailView"
    /\ searchMatches = <<0, 2>>
    /\ currentMatch = 1
    /\ scrollTarget = 2

\* C20: in List, "up" at cursor 0 and "down" on the last index of the list
\* navigated change neither the cursor nor the outstanding commands; any
\* other "up"/"down" moves the cursor by one and issues one preview fetch,
\* for the entry now under the cursor.
C20_CursorMoveFetchesPreview ==
    [][LET last == Max(0, Len(NavigatedList) - 1)
           fetch == SetToBag({loadPreview(NavigatedList[cursor' + 1].Name,
                                          NavigatedList[cursor' + 1].Section)})
       IN
       /\ ListUp
          => IF cursor = 0
             THEN UNCHANGED <<cursor, pending, loadingPreview>>
             ELSE /\ cursor' = cursor - 1
                  /\ pending' = pending (+) fetch
       /\ ListDown
          => IF cursor = last
             THEN UNCHANGED <<cursor, pending, loadingPreview>>
             ELSE /\ cursor' = cursor + 1
                  /\ pending' = pending (+) fetch
      ]_vars

\* "up" from the second of two entries: the cursor is on the first, whose
\* preview is being fetched while the second's is still shown.
C20_Witness ==
    /\ mode = "listView"
    /\ filteredPages = <<PageAb, PageAc>>
    /\ cursor = 0
    /\ previewContent = ManText(PageAc.Name, PageAc.Section)
    /\ loadingPreview
    /\ pending = SetToBag({loadPreview(PageAb.Name, PageAb.Section)})

RECURSIVE EditDistance(_, _)
\* the unit-cost edit distance, by its recurrence
EditDistance(s, t) ==
    IF Len(s) = 0 THEN Len(t)
    ELSE IF Len(t) = 0 THEN Len(s)
    ELSE LET del == EditDistance(Tail(s), t) + 1
             ins == EditDistance(s, Tail(t)) + 1
             sub == EditDistance(Tail(s), Tail(t))
                        + (IF Head(s) = Head(t) THEN 0 ELSE 1)
             m1 == IF ins < del THEN ins ELSE del
         IN IF sub < m1 THEN sub ELSE m1

\* the adjusted distance of a page from a query
AdjustedDistance(query, page) ==
    EditDistance(ToLower(query), ToLower(page.Name))
        - (IF Contains(ToLower(page.Name), ToLower(query)) THEN 5 ELSE 0)

\* C14: the suggestion list has at most 10 entries, all of the catalog and
\* all of adjusted distance <= 5, in non-decreasing order of adjusted
\* distance; no entry left out is strictly nearer than one included; and the
\* list is non-empty when some entry of the catalog is within 5.
C14_SuggestionsAreNearestWithinFive ==
    fzDone =>
      LET Adj(pg) == AdjustedDistance(fzQuery, pg)
          listed == SeqToSet(fzResult)
          catalog == SeqToSet(fzCatalog)
      IN /\ Len(fzResult) <= 10
         /\ listed \subseteq catalog
         /\ Cardinality(listed) = Len(fzResult)
         /\ \A pg \in listed : Adj(pg) <= 5
         /\ \A i, j \in 1..Len(fzResult) :
                i < j => Adj(fzResult[i]) <= Adj(fzResult[j])
         /\ \A out \in catalog \ listed : \A pg \in listed : ~(Adj(out) < Adj(pg))
         /\ (\E pg \in catalog : Adj(pg) <= 5) => Len(fzResult) > 0

\* Twelve pages, one beyond distance 5 and one cut by the cap: ten listed.
C14_Witness ==
    /\ fzDone
    /\ Len(fzCatalog) = 12
    /\ Len(fzResult) = 10
    /\ \E pg \in SeqToSet(fzCatalog) : AdjustedDistance(fzQuery, pg) > 5

HitMatches(content) ==
    LET lines == SplitLines(content)
    IN {m \in 0..(Len(lines) - 1) :
            Contains(ToLower(lines[m + 1]), ToLower(srchQuery))}

\* lines [max(0, m - 3), min(len, m + 4)) of a hit, joined
HitSlice(content, m) ==
    LET lines == SplitLines(content)
        from == Max(0, m - 3)
        to == IF m + 4 < Len(lines) THEN m + 4 ELSE Len(lines)
    IN JoinLines(SubSeq(lines, from + 1, to))

\* C17 as claimed: a search result holds at most 3 windows and counts at
\* most 3, and each window is the slice of lines
\* [max(0, m - 3), min(len, m + 4)) around a matching line m.
C17_WindowsAreSlices ==
    \A r \in 1..Len(srchResults) :
        /\ Len(srchResults[r].Matches) <= 3
        /\ srchResults[r].TotalHits <= 3
        /\ \A w \in 1..Len(srchResults[r].Matches) :
               \E m \in HitMatches(srchHits[r]) :
                   srchResults[r].Matches[w] = HitSlice(srchHits[r], m)

\* C17 as amended: a search result holds at most 3 windows and counts at
\* most 3; each window is the slice of lines
\* [max(0, m - 3), min(len, m + 4)) around a matching line m with the white
\* space at its two ends trimmed, and has at most 7 lines.
C17_WindowsAreTrimmedSlices ==
    \A r \in 1..Len(srchResults) :
        /\ Len(srchResults[r].Matches) <= 3
        /\ srchResults[r].TotalHits <= 3
        /\ \A w \in 1..Len(srchResults[r].Matches) :
               /\ \E m \in HitMatches(srchHits[r]) :
                      srchResults[r].Matches[w] = TrimSpace(HitSlice(srchHits[r], m))
               /\ Len(SplitLines(srchResults[r].Matches[w])) <= 7

\* A document of seven lines, more than three of them matching: three
\* windows, one of all seven lines, one clipped, one trimmed of a blank line.
C17_Witness ==
    /\ srchPc = "done"
    /\ Len(srchResults) = 1
    /\ Cardinality(HitMatches(srchHits[1])) > 3
    /\ Len(srchResults[1].Matches) = 3
    /\ \E w \in 1..3 : Len(SplitLines(srchResults[1].Matches[w])) = 7
    /\ \E w \in 1..3 : Len(SplitLines(srchResults[1].Matches[w])) < 7
    /\ \E w \in 1..3 : \E m \in HitMatches(srchHits[1]) :
           /\ srchResults[1].Matches[w] = TrimSpace(HitSlice(srchHits[1], m))
           /\ srchResults[1].Matches[w] # HitSlice(srchHits[1], m)

\* the k smallest members of a set of numbers, ascending
RECURSIVE Smallest(_, _)
Smallest(set, k) ==
    IF k = 0 \/ set = {} THEN <<>>
    ELSE LET least == CHOOSE x \in set : \A y \in set : x <= y
         IN <<least>> \o Smallest(set \ {least}, k - 1)

\* C18 as claimed: for a document with more than 3 matching lines, the
\* windows of its search result are those of the 3 smallest matching lines,
\* in ascending line order.
C18_WindowsOfFirstThreeMatches ==
    \A r \in 1..Len(srchResults) :
        Cardinality(HitMatches(srchHits[r])) > 3 =>
            LET first == Smallest(HitMatches(srchHits[r]), 3)
            IN srchResults[r].Matches =
                   [w \in 1..3 |-> TrimSpace(HitSlice(srchHits[r], first[w]))]

\* the reports that say the index is missing
IndexMissingReports == {"Search index not found", "index not found"}

\* C19: with the index missing the invocation never opens the index nor
\* runs a query, and what it reports when it ends says the index is missing,
\* which the report of an index that cannot be opened does not.
C19_MissingIndexReported ==
    /\ indexState = "missing"
       => /\ ~searched
          /\ srchPc \in {"check", "exited"}
          /\ srchResults = <<>>
          /\ srchPc = "exited" => srchReport \in IndexMissingReports
    /\ (indexState = "unreadable" /\ srchPc = "exited")
       => srchReport \notin IndexMissingReports

\* The invocation has ended on a missing index.
C19_Witness ==
    /\ indexState = "missing"
    /\ srchPc = "exited"
    /\ srchReport = "Search index not found"
    /\ ~searched

\* The entries of `catalog` whose section is enabled in `filters`.
EnabledEntries(filters, catalog) ==
    SelectSeq(catalog, LAMBDA p :
        \E i \in 1..Len(filters) :
            filters[i].Section = p.Section /\ filters[i].Enabled)

\* C21: a section-toggle key in List mode flips the filter of that section
\* and no other, recomputes the filtered view from the full catalog and
\* clamps the cursor into it; a non-empty view gets exactly one preview fetch
\* for the entry at the clamped cursor, an empty view gets cursor 0 and no
\* fetch.
C21_ToggleFlipsOneFilterAndRefetches ==
    [][\A section \in ToggleKeys :
        ListToggle(section) =>
            /\ mode = "listView"
            /\ Len(sectionFilters') = Len(sectionFilters)
            /\ \A i \in 1..Len(sectionFilters) :
                /\ sectionFilters'[i].Section = sectionFilters[i].Section
                /\ sectionFilters'[i].Enabled =
                       IF sectionFilters[i].Section = section
                       THEN ~sectionFilters[i].Enabled
                       ELSE sectionFilters[i].Enabled
            /\ filteredPages' = EnabledEntries(sectionFilters', manPages)
            /\ IF Len(filteredPages') > 0
               THEN /\ cursor' = IF cursor >= Len(filteredPages')
                                 THEN Len(filteredPages') - 1 ELSE cursor
                    /\ pending' = pending (+) SetToBag(
                           {loadPreview(filteredPages'[cursor' + 1].Name,
                                        filteredPages'[cursor' + 1].Section)})
               ELSE /\ cursor' = 0
                    /\ pending' = pending]_vars

\* A toggle has just emptied the view of a loaded catalog: the cursor is 0
\* and nothing was fetched.
C21_Witness ==
    /\ mode = "listView"
    /\ Len(manPages) = 2
    /\ Len(filteredPages) = 0
    /\ cursor = 0
    /\ ~loading
    /\ pending = EmptyBag
    /\ \A i \in 1..Len(sectionFilters) :
           sectionFilters[i].Enabled <=> sectionFilters[i].Section \notin {"1", "2"}

\* C22: applying a content-loaded message puts the program in Detail mode
\* with the scroll at the top; the back key in Detail returns to List with
\* the in-document query and the match list empty; so whenever the mode is
\* List the in-document query and the match list are empty.
C22_ListModeHasNoDocumentSearch ==
    /\ [](mode = "listView" => searchQuery = <<>> /\ searchMatches = <<>>)
    /\ [][/\ DeliverManContentLoaded
              => mode' = "detailView" /\ scrollTarget' = 0
          /\ DetailBack
              => /\ mode' = "listView"
                 /\ searchQuery' = <<>>
                 /\ searchMatches' = <<>>]_vars

\* Back in List from a document that had been searched and scrolled to a
\* match below the top.
C22_Witness ==
    /\ mode = "listView"
    /\ currentContent = <<>>
    /\ scrollTarget = 2
    /\ currentMatch = 1
    /\ searchQuery = <<>>
    /\ searchMatches = <<>>

\* C28: the section filters start all enabled, and a step that changes any
\* filter's enabled flag is a section-toggle key applied in List mode; every
\* other message leaves the filters as they were.
C28_FiltersChangeOnlyByToggle ==
    /\ \A i \in 1..Len(sectionFilters) : sectionFilters[i].Enabled
    /\ Len(sectionFilters) = 9
    /\ [][sectionFilters' # sectionFilters
            => /\ mode = "listView"
               /\ \E section \in ToggleKeys : ListToggle(section)]_vars

\* A document search is being typed while a filter switched off earlier in
\* List mode is still off.
C28_Witness ==
    /\ mode = "detailSearchView"
    /\ detailSearchInput # <<>>
    /\ \E i \in 1..Len(sectionFilters) : ~sectionFilters[i].Enabled
    /\ \E i \in 1..Len(sectionFilters) :
           sectionFilters[i].Section = "1" /\ sectionFilters[i].Enabled

\* `i` is an index (counted from 0) of `list`.
IndexOf(i, list) == 0 <= i /\ i < Len(list)

\* The reads pages[m.cursor] that up, down, enter and a toggle of `section`
\* would make in the current state, as pairs <<index, list>>.
UpReads ==
    IF cursor > 0 /\ Len(NavigatedList) > 0
    THEN {<<cursor - 1, NavigatedList>>} ELSE {}

DownReads ==
    IF cursor < Len(NavigatedList) - 1 /\ Len(NavigatedList) > 0
    THEN {<<cursor + 1, NavigatedList>>} ELSE {}

EnterReads ==
    IF Len(NavigatedList) > 0 /\ cursor < Len(NavigatedList)
    THEN {<<cursor, NavigatedList>>} ELSE {}

ToggleReads(section) ==
    LET view == EnabledEntries(ToggleFilter(sectionFilters, section), manPages)
        clamped == IF cursor >= Len(view) THEN Len(view) - 1 ELSE cursor
    IN IF Len(view) > 0
       THEN {<<IF clamped < 0 THEN 0 ELSE clamped, view>>} ELSE {}

\* C27: in every reachable state, whatever mix of filter toggles, catalog
\* arrivals and suggestion-list navigation led to it, the entry that up,
\* down, open-selected or a section toggle reads is at an index inside the
\* list read (the filtered view or the fuzzy suggestions); and every step
\* of up or down that moves the cursor, and every toggle, leaves the cursor
\* on an entry of the list it fetched the preview from.
C27_ListReadsInBounds ==
    /\ [](mode = "listView" =>
            \A rd \in UpReads \cup DownReads \cup EnterReads
                      \cup UNION {ToggleReads(k) : k \in ToggleKeys} :
                IndexOf(rd[1], rd[2]))
    /\ [][/\ (ListUp \/ ListDown) /\ cursor' # cursor
              => IndexOf(cursor', NavigatedList)
          /\ ListEnter /\ pending' # pending
              => IndexOf(cursor, NavigatedList)
          /\ \A k \in ToggleKeys :
                ListToggle(k) /\ pending' # pending
                    => IndexOf(cursor', filteredPages')]_vars

\* The cursor is on the second fuzzy suggestion, whose preview is being
\* fetched, while the filtered view is empty.
C27_Witness ==
    /\ mode = "listView"
    /\ Len(filteredPages) = 0
    /\ Len(noMatchSuggestions) = 2
    /\ cursor = 1
    /\ loadingPreview
    /\ BagIn(loadPreview(noMatchSuggestions[2].Name,
                         noMatchSuggestions[2].Section), pending)

\* The catalog commands (loadManPages, searchManPages) in a bag of commands.
CatalogOps(bag) ==
    {op \in BagToSet(bag) : op.kind \in {"loadManPages", "searchManPages"}}

\* C26 as claimed: a set loading flag stays set for as long as a catalog
\* command is outstanding, and the step that clears it applies the result
\* of a catalog command.
C26_LoadingHeldUntilCatalogResult ==
    [][/\ (loading /\ CatalogOps(pending') # {}) => loading'
       /\ (loading /\ ~loading')
            => \E op \in CatalogOps(pending) : pending' # pending]_vars

\* C26: the loading flag is set at startup and raised only by refresh and by
\* committing a list search; while it is set a catalog command is
\* outstanding; the only steps that clear it apply a catalog arrival or an
\* error message of any command (a failed content load included), every
\* other step leaving it set; and with catalog results delivered fairly a
\* set flag is eventually cleared unless the user quits first.
C26_LoadingClearedByArrivalOrError ==
    /\ loading = TRUE
    /\ [](loading => CatalogOps(pending) # {})
    /\ [][/\ (loading /\ ~loading') => DeliverManPagesLoaded \/ DeliverErr
          /\ (~loading /\ loading') => ListRefresh \/ SearchEnter]_vars
    /\ loading ~> (~loading \/ quit)

\* The error of a failed content load has cleared the loading flag while the
\* refresh that set it is still outstanding.
C26_Witness ==
    /\ ~loading
    /\ err = ErrManPage
    /\ pending = SetToBag({loadManPages})
    /\ mode = "listView"
    /\ Len(manPages) > 0

\* C23: results is closed at most once, by the closer, and only when every
\* fetch worker has left its loop; it is closed in every rebuild that
\* completes; and no worker sends a document to results once it is closed.
C23_ResultsClosedOnceAfterWorkers ==
    /\ [](resultsClosed => \A w \in Workers : workerPc[w] = "exited")
    /\ [](resultsClosed => ~ENABLED CloseResults)
    /\ [](Completed => resultsClosed)
    /\ [][/\ resultsClosed => resultsClosed'
          /\ resultsClosed' # resultsClosed
                => CloseResults /\ \A w \in Workers : workerPc[w] = "exited"
          /\ \A w \in Workers : WorkerSend(w) => ~resultsClosed']_vars

\* results has been closed with a document still buffered in it, after both
\* workers have left.
C23_Witness ==
    /\ resultsClosed
    /\ Len(results) > 0
    /\ mainPc = "drain"
    /\ \A w \in Workers : workerPc[w] = "exited"
    /\ wg = 0

\* How often the ID is held by the committed batches.
TimesCommitted(id) ==
    Cardinality({i \in 1..Len(Flatten(committed)) : Flatten(committed)[i] = id})

\* C24: the coordinator commits a batch in the drain exactly when the
\* document it adds is the batchSize-th of the batch, and commits the batch
\* left over at the end exactly when it holds a document; no committed batch
\* holds more than batchSize documents (nor none), the open batch always
\* holds fewer, and when the rebuild completes every document a worker
\* emitted is in exactly one committed batch.
C24_BatchesCommittedAtBatchSize ==
    /\ [](\A i \in 1..Len(committed) :
            Len(committed[i]) >= 1 /\ Len(committed[i]) <= BatchSize)
    /\ [](mainPc = "drain" => Len(batch) < BatchSize)
    /\ [](Completed =>
            /\ batch = <<>>
            /\ \A p \in SeqToSet(pages) \ failing : TimesCommitted(DocID(p)) = 1
            /\ \A i \in 1..(Len(committed) - 1) : Len(committed[i]) = BatchSize)
    /\ [][/\ (DrainOne /\ engine = "ok")
              => IF Len(batch) + 1 = BatchSize
                 THEN /\ committed' = Append(committed,
                                        Append(batch, DocID(Head(results))))
                      /\ batch' = <<>>
                 ELSE /\ committed' = committed
                      /\ batch' = Append(batch, DocID(Head(results)))
          /\ (FinishDrain /\ engine = "ok")
              => IF Len(batch) > 0
                 THEN committed' = Append(committed, batch)
                 ELSE committed' = committed
          /\ committed' # committed => DrainOne \/ FinishDrain]_vars

\* A completed rebuild of three documents: one full batch committed in the
\* drain and the one left over committed at the end.
C24_Witness ==
    /\ Completed
    /\ Len(committed) = 2
    /\ Len(committed[1]) = BatchSize
    /\ Len(committed[2]) = 1
    /\ failing = {}

\* C25: every step that adds a document to the batch, commits a batch or
\* advances the indexed count is a step of the coordinator; the steps of the
\* fetch workers change nothing but the work queue, the results queue, the
\* processed counter, their own position and the wait group, and those of
\* the sender and the closer change only the queues; so the search engine
\* has a single writer in every interleaving.
C25_OnlyCoordinatorWritesEngine ==
    [][/\ <<batch, committed, count>>' # <<batch, committed, count>>
            => (DrainOne \/ FinishDrain) /\ mainPc = "drain"
       /\ \A w \in Workers :
            Worker(w) => UNCHANGED <<batch, committed, count, mainPc, retErr,
                                     engine, pages, failing, senderNext,
                                     jobsClosed, resultsClosed, watcherPc>>
       /\ (SendJob \/ CloseResults)
            => UNCHANGED <<batch, committed, count, mainPc, retErr, engine>>]_vars

\* A worker waits to send a document while another document is buffered in
\* results and the coordinator holds an open batch.
C25_Witness ==
    /\ \E w \in Workers : workerPc[w] = "send"
    /\ Len(results) = ResultsCap
    /\ Len(batch) > 0
    /\ mainPc = "drain"

\* The line holds the query somewhere, letter case apart.
ContainsFold(line, query) ==
    \E k \in 0..(Len(line) - Len(query)) :
        \A i \in 1..Len(query) : LowerChar(line[k + i]) = LowerChar(query[i])

\* C29: committing a non-empty in-document query makes the match list
\* exactly the numbers (from 0) of the lines of the detail text that hold
\* the query, letter case apart: every such line, no other, each once, in
\* strictly ascending order, however many there are.
C29_MatchesAreAllMatchingLines ==
    [][(DetailSearchEnter /\ detailSearchInput # <<>>) =>
          LET lines == SplitLines(currentContent)
              hits == {i \in 0..(Len(lines) - 1) :
                          ContainsFold(lines[i + 1], detailSearchInput)}
          IN /\ {searchMatches'[k] : k \in 1..Len(searchMatches')} = hits
             /\ Len(searchMatches') = Cardinality(hits)
             /\ \A k \in 1..(Len(searchMatches') - 1) :
                    searchMatches'[k] < searchMatches'[k + 1]
             /\ searchQuery' = detailSearchInput]_vars

\* A query committed on a text of five lines, all of which hold it, one of
\* them in upper case: five matches.
C29_Witness ==
    /\ mode = "detailView"
    /\ searchQuery = <<"a">>
    /\ searchMatches = <<0, 1, 2, 3, 4>>
    /\ Contains(currentContent, <<"A">>)
    /\ Contains(currentContent, <<"b", "a">>)

\* C30: levenshteinDistance is the unit-cost edit distance of the two
\* strings with their letter case folded: over all strings of the bounded
\* alphabet it gives the same both ways round, 0 for a string and itself,
\* the other string's length against the empty string, and 2 for "grep" and
\* "grpe".
C30_DistanceIsCaseFoldedEditDistance ==
    lvDone =>
        /\ lvOut.ab = EditDistance(ToLower(lvS1), ToLower(lvS2))
        /\ lvOut.ab = lvOut.ba
        /\ lvOut.aa = 0
        /\ lvOut.ae = Len(lvS1)
        /\ lvOut.ea = Len(lvS1)
        /\ (lvS1 = Grep /\ lvS2 = Grpe) => lvOut.ab = 2

\* The distance of "grep" and "grpe" has been evaluated.
C30_Witness ==
    /\ lvDone
    /\ lvS1 = Grep
    /\ lvS2 = Grpe
    /\ lvOut.ab = 2
    /\ lvOut.ba = 2

\* C36: in every reachable state whose match list is non-empty the current
\* match is an index of it, 0 <= currentMatch < len(searchMatches), whatever
\* the commits, n / N steps, returns to List and reopenings before it.
C36_CurrentMatchInMatchList ==
    Len(searchMatches) > 0 =>
        currentMatch >= 0 /\ currentMatch < Len(searchMatches)

\* The page with a single match has been searched: the current match is 0
\* and the view is scrolled to its line.
C36_Witness ==
    /\ mode = "detailView"
    /\ currentContent = ManText(PageAc.Name, PageAc.Section)
    /\ Len(searchMatches) = 1
    /\ currentMatch = 0
    /\ scrollTarget = 1
    /\ previewContent = ManText(PageAb.Name, PageAb.Section)

\* C33 as claimed: whenever the match list is non-empty, each of its entries
\* is the number of a line of the current detail text, and that line holds
\* the stored query, letter case apart.
C33_MatchesBelongToCurrentText ==
    Len(searchMatches) > 0 =>
        LET lines == SplitLines(currentContent)
        IN \A k \in 1..Len(searchMatches) :
               /\ searchMatches[k] >= 0
               /\ searchMatches[k] < Len(lines)
               /\ ContainsFold(lines[searchMatches[k] + 1], searchQuery)

\* C35 as claimed: the suggestions are filled only by the catalog arrival
\* that answers the initial query, and once a later catalog arrival (one
\* applied with no initial query pending) has been applied the suggestion
\* list is empty.
C35_LaterArrivalEmptiesSuggestions ==
    [][/\ (DeliverManPagesLoaded /\ initialQuery = <<>>)
            => noMatchSuggestions' = <<>>
       /\ (noMatchSuggestions' # noMatchSuggestions /\ noMatchSuggestions' # <<>>)
            => DeliverManPagesLoaded /\ initialQuery # <<>>]_vars

\* C34 as claimed: when adding a document to the batch or committing a batch
\* fails and the coordinator returns without draining results any further,
\* every fetch worker still leaves its loop and the closer still closes
\* results: no worker stays blocked on the send to the full results queue.
C34_PoolEndsAfterAbort ==
    (mainPc = "returned" /\ retErr \in {"failed to index", "failed to commit batch",
                                       "failed to commit final batch"})
        ~> (/\ \A w \in Workers : workerPc[w] = "exited"
            /\ watcherPc = "done")

\* What a preview fetch of the page can leave in previewContent: its text,
\* or the text that reports the failure of the fetch.
PreviewsOf(page) ==
    {ManText(page.Name, page.Section), PreviewErrText(ErrManPage)}

\* C31 as claimed: whenever no preview fetch is outstanding and the list
\* navigated is not empty, the preview text held is the preview of the entry
\* under the cursor, in whatever order the results were applied.
C31_PreviewIsOfEntryUnderCursor ==
    (/\ \A op \in BagToSet(pending) : op.kind # "loadPreview"
     /\ Len(NavigatedList) > 0
     /\ cursor < Len(NavigatedList))
        => previewContent \in PreviewsOf(NavigatedList[cursor + 1])

\* C32 as claimed: whenever the mode is Detail, the filtered view has an
\* entry at the cursor (the one the detail title names) and the detail text
\* is the content of that entry.
C32_DetailTextIsOfTitledEntry ==
    mode = "detailView" =>
        /\ cursor >= 0 /\ cursor < Len(filteredPages)
        /\ currentContent = ManText(filteredPages[cursor + 1].Name,
                                    filteredPages[cursor + 1].Section)

====
